---- MODULE Spec2Model ----
(***************************************************************************)
(* Model of the caching layer of Jesusyut/lite:                            *)
(*   utils/rcache.py  - cached_fetch with fresh/stale entries and a daily  *)
(*                      call budget, on Redis or on the in-process dict    *)
(*   cache_ttl.py     - cached_fetch with a per-key in-process lock        *)
(* Threads of one process run the handlers; every atomic step of a handler *)
(* (one store operation, one dict operation, the upstream call) is one     *)
(* action, so that all interleavings of concurrent callers are explored.   *)
(* Time is counted in ticks; DayLen ticks make one calendar day.           *)
(***************************************************************************)
EXTENDS Integers, Sequences, FiniteSets, TLC

\* ---------------------------------------------------------------- bounds
MaxTime    == 3      \* the clock runs from 0 to MaxTime
MaxFetches == 2      \* fetch_fn invocations explored in one run
MaxSwrFetches == 3   \* fetch_fn invocations explored in one run of stale_while_revalidate
Headroom   == 1      \* the day's counter starts at most this far below the cap
DayLen     == 3      \* ticks per calendar day
Ttl        == 1      \* ttl argument of the call sites, in ticks
StaleTtl   == 2      \* stale_ttl argument of the call sites, in ticks
SoftTtl    == 1      \* soft_ttl argument of stale_while_revalidate, in ticks
HardTtl    == 2      \* hard_ttl argument of stale_while_revalidate, in ticks
MaxRaceFetches == 4   \* fetch_fn invocations explored in the run of the budget race
RaceHeadroom == 2     \* the day's counter starts this far below the cap in that run
MaxCalls == 3  \* calls of maybe_start_scheduler explored in one run
MaxOver == 1   \* count_call is explored until the counter is this far above the cap
MaxTries == 2      \* the largest `tries` argument of _retrying_call
MaxGetTries == 3   \* the largest `tries` argument of _throttled_get
MinInterval == 1   \* MLB_MIN_INTERVAL_S, in seconds

\* ------------------------------------------------------ program constants
SoftCap    == 90     \* budget_ok(prefix, soft_cap=90)

CountKeep  == DayLen + 1   \* 60*60*26: a little more than one day

\* the threads of the process that call into the cache
Threads  == {"t1", "t2"}
Days     == 0..(MaxTime \div DayLen)
Backends == {"redis", "mem"}

\* Python values a fetch_fn can return (JSON null, an empty object, an object)
Values == {"None", "dict()", "dict(id=1)"}
\* exceptions a fetch_fn can raise
Errors == {"Timeout", "HTTPError"}
\* exceptions a store write can raise
StoreErrors == {"ConnectionError"}
BudgetExhausted == "RuntimeError(API budget exhausted and no cached data)"

\* a payload that carries meta.cached_at, the unix time of tick t
Digit == <<"0", "1", "2", "3", "4", "5", "6", "7", "8", "9">>
Tagged(t) == "dict(meta=dict(cached_at=T+" \o Digit[t + 1] \o "))"
TaggedText(t) == "{\"meta\": {\"cached_at\": T+" \o Digit[t + 1] \o "}}"
IsTagged(v) == \E t \in 0..MaxTime : v = Tagged(t)
TagTime(v) == CHOOSE t \in 0..MaxTime : v = Tagged(t)

\* the upstream APIs the services call, and the body each one answers with
Upstreams == {"american-football", "baseball"}
Response(u) == "dict(get=" \o u \o ")"
ResponseText(u) == "{\"get\": \"" \o u \o "\"}"

\* json.dumps / json.loads on the values above
JsonDumps(v) ==
  CASE v = "None"       -> "null"
    [] v = "dict()"     -> "{}"
    [] v = "dict(id=1)" -> "{\"id\": 1}"
    [] IsTagged(v)      -> TaggedText(TagTime(v))
    [] \E u \in Upstreams : v = Response(u)
                        -> ResponseText(CHOOSE u \in Upstreams : v = Response(u))

JsonLoads(s) ==
  CASE s = "null"          -> "None"
    [] s = "{}"            -> "dict()"
    [] s = "{\"id\": 1}"   -> "dict(id=1)"
    [] \E t \in 0..MaxTime : s = TaggedText(t)
                           -> Tagged(CHOOSE t \in 0..MaxTime : s = TaggedText(t))
    [] \E u \in Upstreams : s = ResponseText(u)
                           -> Response(CHOOSE u \in Upstreams : s = ResponseText(u))

\* ------------------------------------------------------------ key builder
Provider == "apisports"

\* the requests of the call sites: a path and a params dict, the dict given
\* as its items in insertion order
Requests ==
  { [path |-> "/players", params |-> << <<"search", "x">> >>],
    [path |-> "/games",   params |-> << <<"date", "d">> >>] }

\* the parameter names in lexicographic order
NameOrder == <<"date", "search">>

RECURSIVE SortedFrom(_, _)
SortedFrom(params, i) ==
  IF i > Len(NameOrder) THEN <<>>
  ELSE SelectSeq(params, LAMBDA kv : kv[1] = NameOrder[i]) \o SortedFrom(params, i + 1)

\* variant: the params are dumped in insertion order
DumpsSorted_insertion(params) == params

\* json.dumps(params or {}, sort_keys=True)
DumpsSorted(params) == SortedFrom(params, 1)

\* _k: prefix + ":" + md5(path + "|" + dumps); md5 is taken to be injective
_k(prefix, path, params) == <<prefix, <<path, "|", DumpsSorted(params)>> >>

\* arguments for the key builder: dicts of up to two items, given in every
\* insertion order
ParamItems == {<<"date", "d">>, <<"search", "x">>, <<"search", "y">>}
ParamDicts ==
  {<<>>} \cup {<<a>> : a \in ParamItems}
         \cup {<<a, b>> : <<a, b>> \in {ab \in ParamItems \X ParamItems : ab[1][1] # ab[2][1]}}
KPrefixes == {<<Provider, "fresh">>, <<Provider, "stale">>}
KPaths    == {"/players", "/games"}
KInputs   == [prefix : KPrefixes, path : KPaths, params : ParamDicts \X ParamDicts]
NoKey     == <<>>
NoKin     == [prefix |-> <<Provider, "fresh">>, path |-> "/players", params |-> << <<>>, <<>> >>]

fresh_key(q) == _k(<<Provider, "fresh">>, q.path, q.params)
\* variant: the stale entry is filed under the fresh prefix
stale_key_fresh(q) == _k(<<Provider, "fresh">>, q.path, q.params)

stale_key(q) == _k(<<Provider, "stale">>, q.path, q.params)

StoreKeys == {fresh_key(q) : q \in Requests} \cup {stale_key(q) : q \in Requests}

\* variant: one counter key for all days
_day_undated(t) == 0

\* _day: the counter key embeds the calendar day
_day(t) == t \div DayLen

\* ------------------------------------------------------------------ state
VARIABLES
  backend,    \* "redis" when REDIS_URL is set, else "mem" (the _mem dict)
  now,        \* time.time()
  store,      \* the value store: key -> entry
  counter,    \* the per-day call counters: day -> entry
  pc,         \* position of each thread inside rcache.cached_fetch
  req,        \* the (path, params) of the thread's call
  data,       \* local `data`
  cur,        \* local counter value read by budget_ok / count_call, with its day
  ret,        \* outcome of the thread's last call
  upstream,   \* what fetch_fn did in the thread's call: nothing, a value, an exception
  count0,     \* the day-0 counter when the threads start: earlier calls of the day
  started,    \* per day: fetch_fn invocations the threads have begun
  succeeded,  \* per day: fetch_fn invocations that returned a value
  fetched,    \* per request: the values fetch_fn has returned
  \* cache_ttl.py
  locks,      \* the _locks dict: key -> lock object
  held,       \* per lock object: the thread holding it
  tstore,     \* the Redis store behind cache_get / cache_set
  tpc,        \* position of each thread inside cache_ttl.cached_fetch
  tkey,       \* the key of the thread's call
  tlock,      \* local `lock`
  tdata,      \* local `data`
  tret,       \* outcome of the thread's last call
  tstarted,   \* fetch_fn invocations begun through cache_ttl.py
  twait,      \* per thread: what became of the fetch_fn that was in flight
              \* for its key when it called cached_fetch
  \* cache_ttl.stale_while_revalidate
  spc,        \* position of each thread inside stale_while_revalidate
  skey,       \* the key of the thread's call
  snow,       \* local `now`
  sdata,      \* local `data`
  sret,       \* outcome of the thread's last call
  bg,         \* the background threads started for revalidation
  \* rcache._k applied on its own
  kin,        \* the arguments: a prefix, a path and two params dicts
  kout,       \* the keys returned for the two dicts
  \* rcache._get and rcache._setex called on their own
  gpc,        \* position of each thread inside _get
  gkey,       \* the key of the thread's _get
  gret,       \* outcome of the thread's last _get
  lastset,    \* per key: the value, time and ttl of the latest _setex
  \* one sequence of cached_fetch calls run on both backends side by side
  twin,       \* per backend: its store, its counters and what the last call did
  edge,       \* a call was made at the very instant one of its entries expired
  \* app_scheduler.py
  scheduler,  \* the module global _scheduler
  runsched,   \* the environment variable RUN_SCHEDULER
  mpc,        \* position of the caller inside maybe_start_scheduler
  mret,       \* outcome of the last call
  nstarts,    \* invocations of warmers.start_scheduler
  ncalls,     \* calls of maybe_start_scheduler
  \* what a cached_fetch call did to the store before its outcome
  removed,    \* per thread: its call has deleted an entry that had not run out
  \* the services' call sites of rcache.cached_fetch, called one after another
  xstore,     \* the value store behind them
  xcount,     \* per provider prefix: its per-day call counters
  xret,       \* the call site, outcome and fetch_fn use of the last call
  \* services/mlb.py: _retrying_call as the fetch_fn of cached_fetch
  rtries,     \* the `tries` argument: MLB_RETRIES + 1
  attempts,   \* per thread: invocations of fn in its current _retrying_call
  rlast,      \* per thread: local `last`
  \* services/mlb_free.py: _throttled_get
  hpc,        \* position of the caller inside _throttled_get
  htries,     \* the `tries` argument
  hi,         \* the loop variable i
  hreq,       \* HTTP requests issued in the current call
  hresp,      \* the responses received in the current call, in order
  hlast,      \* the module global _LAST_CALL_AT
  hmono,      \* time.monotonic()
  hret,       \* outcome of the last call
  \* services/mlb.py: resolve_player_id
  memo,       \* the module global _NAME_TO_ID
  npc,        \* position of each thread inside resolve_player_id
  nname,      \* the `name` argument of the thread's call
  nres,       \* local `res`: what search_player returned
  nret,       \* outcome of the thread's last call
  nsearched   \* per thread: search_player was called in its current call

rcVars  == <<backend, store, counter, pc, req, data, cur, ret, upstream,
             count0, started, succeeded, fetched>>
ttlVars == <<locks, held, tstore, tpc, tkey, tlock, tdata, tret, tstarted, twait>>
swrVars == <<spc, skey, snow, sdata, sret, bg>>
keyVars == <<kin, kout>>
storeVars == <<gpc, gkey, gret, lastset>>
twinVars == <<twin, edge>>
schedVars == <<scheduler, runsched, mpc, mret, nstarts, ncalls>>
frameVars == <<removed>>
siteVars == <<xstore, xcount, xret>>
retryVars == <<rtries, attempts, rlast>>
throttleVars == <<hpc, htries, hi, hreq, hresp, hlast, hmono, hret>>
nameVars == <<memo, npc, nname, nres, nret, nsearched>>
lateVars == <<retryVars, throttleVars, nameVars>>
earlyVars == <<keyVars, storeVars, twinVars, schedVars, frameVars, siteVars>>
auxVars == <<earlyVars, lateVars>>
vars    == <<now, rcVars, ttlVars, swrVars, auxVars>>

\* the keys the warmers pass to cache_ttl.cached_fetch
TKeys   == {"mlb:today:players", "mlb:today:schedule"}
\* threading.Lock() objects: one can be created per key and calling thread
LockIds == TKeys \X Threads
NoLock  == <<>>
Free    == "free"
\* threading.Thread(target=_bg): every upstream call can be one of them
BgIds   == 1..MaxSwrFetches
NoBg    == [st |-> "unborn", key |-> CHOOSE k \in TKeys : TRUE, data |-> "None", at |-> 0]

NoExpiry == -1
Absent   == [present |-> FALSE, val |-> "", exp |-> 0]
Entry(v, e) == [present |-> TRUE, val |-> v, exp |-> e]

NeverSet == [set |-> FALSE, val |-> "None", at |-> 0, ttl |-> 0]
NoCount  == [present |-> FALSE, n |-> 0, exp |-> 0]
NoRet    == [kind |-> "none", val |-> ""]
NoCur    == [day |-> 0, n |-> 0]
AnyReq   == CHOOSE q \in Requests : TRUE
AnyKey   == CHOOSE k \in TKeys : TRUE

\* the entry is stored and its TTL has not run out
Unexpired(e) == e.present /\ (e.exp = NoExpiry \/ now < e.exp)
\* the Python value held by an entry
Held(e) == IF backend = "redis" THEN JsonLoads(e.val) ELSE e.val

\* the caches as the module imports leave them, count0 calls of the day
\* having been counted before
InitStores ==
  /\ backend \in Backends
  /\ now = 0
  /\ store = [k \in StoreKeys |-> Absent]
  /\ counter = [d \in Days |-> IF d = 0 /\ count0 > 0
                               THEN [present |-> TRUE, n |-> count0,
                                     exp |-> IF backend = "redis" THEN CountKeep ELSE NoExpiry]
                               ELSE NoCount]
  /\ started   = [d \in Days |-> 0]
  /\ succeeded = [d \in Days |-> 0]
  /\ pc = [t \in Threads |-> "idle"]
  /\ req = [t \in Threads |-> AnyReq]
  /\ data = [t \in Threads |-> "None"]
  /\ cur = [t \in Threads |-> NoCur]
  /\ ret = [t \in Threads |-> NoRet]
  /\ upstream = [t \in Threads |-> NoRet]
  /\ fetched = [q \in Requests |-> {}]
  /\ locks = [k \in TKeys |-> NoLock]
  /\ held = [l \in LockIds |-> Free]
  /\ tstore = [k \in TKeys |-> Absent]
  /\ tpc = [t \in Threads |-> "idle"]
  /\ tkey = [t \in Threads |-> AnyKey]
  /\ tlock = [t \in Threads |-> NoLock]
  /\ tdata = [t \in Threads |-> "None"]
  /\ tret = [t \in Threads |-> NoRet]
  /\ tstarted = 0
  /\ twait = [t \in Threads |-> "none"]
  /\ spc = [t \in Threads |-> "idle"]
  /\ skey = [t \in Threads |-> AnyKey]
  /\ snow = [t \in Threads |-> 0]
  /\ sdata = [t \in Threads |-> "None"]
  /\ sret = [t \in Threads |-> NoRet]
  /\ bg = [i \in BgIds |-> NoBg]

\* no thread calls _get or _setex on its own
RestStore ==
  /\ gpc = [t \in Threads |-> "idle"]
  /\ gkey = [t \in Threads |-> fresh_key(AnyReq)]
  /\ gret = [t \in Threads |-> NoRet]
  /\ lastset = [k \in StoreKeys |-> NeverSet]

\* the side-by-side run is not in use
NoSide == [store |-> [k \in StoreKeys |-> Absent], counter |-> [d \in Days |-> NoCount],
           ret |-> NoRet, invoked |-> FALSE]
RestTwin ==
  /\ twin = [b \in Backends |-> NoSide]
  /\ edge = FALSE

\* app_scheduler has been imported (_scheduler = None) and not called
RestSched ==
  /\ scheduler = "None"
  /\ runsched = "unset"
  /\ mpc = "idle"
  /\ mret = NoRet
  /\ nstarts = 0
  /\ ncalls = 0

\* nothing but the caches is in use
\* the call sites of rcache.cached_fetch in the services: the provider
\* prefix, path and params each passes, and the upstream API its fetch_fn calls
Sites ==
  { [service |-> "nfl_apisports.search_player", prefix |-> "apisports", path |-> "/players",
     params |-> << <<"search", "x">> >>, upstream |-> "american-football"],
    [service |-> "mlb_apisports.search_player", prefix |-> "apisports", path |-> "/players",
     params |-> << <<"search", "x">> >>, upstream |-> "baseball"],
    [service |-> "mlb_apisports.todays_matchups", prefix |-> "apisports", path |-> "/games",
     params |-> << <<"date", "d">> >>, upstream |-> "baseball"],
    [service |-> "mlb.search_player", prefix |-> "apisports_mlb", path |-> "/players",
     params |-> << <<"search", "x">> >>, upstream |-> "baseball"] }
SitePrefixes == {s.prefix : s \in Sites}
SiteFresh(s) == _k(<<s.prefix, "fresh">>, s.path, s.params)
SiteStale(s) == _k(<<s.prefix, "stale">>, s.path, s.params)
SiteKeys == {SiteFresh(s) : s \in Sites} \cup {SiteStale(s) : s \in Sites}
NoSiteRet == [site |-> CHOOSE s \in Sites : TRUE, kind |-> "none", val |-> "", invoked |-> FALSE]

RestSites ==
  /\ xstore = [k \in SiteKeys |-> Absent]
  /\ xcount = [p \in SitePrefixes |-> [d \in Days |-> NoCount]]
  /\ xret = NoSiteRet

RestRetry ==
  /\ rtries = 1
  /\ attempts = [t \in Threads |-> 0]
  /\ rlast = [t \in Threads |-> "None"]

RestThrottle ==
  /\ hpc = "idle"
  /\ htries = 0
  /\ hi = 0
  /\ hreq = 0
  /\ hresp = <<>>
  /\ hlast = 0
  /\ hmono = 0
  /\ hret = NoRet

RestNames ==
  /\ memo = <<>>
  /\ npc = [t \in Threads |-> "idle"]
  /\ nname = [t \in Threads |-> ""]
  /\ nres = [t \in Threads |-> <<>>]
  /\ nret = [t \in Threads |-> NoRet]
  /\ nsearched = [t \in Threads |-> FALSE]

RestLate == RestRetry /\ RestThrottle /\ RestNames

RestFrame == removed = [t \in Threads |-> FALSE]

InitAux ==
  /\ kin = NoKin
  /\ kout = <<NoKey, NoKey>>
  /\ RestStore
  /\ RestFrame
  /\ RestSites
  /\ RestLate
  /\ RestTwin
  /\ RestSched

InitCaches ==
  /\ count0 \in (SoftCap - Headroom)..SoftCap
  /\ InitStores

Init == InitCaches /\ InitAux

\* ------------------------------------------------------------ value store
\* variant: a missing entry reads as an empty payload instead of None
GetRead_default(k) ==
  IF store[k].present
  THEN [expired |-> FALSE, data |-> Held(store[k])]
  ELSE [expired |-> FALSE, data |-> "dict()"]

\* _get(key): the value, None, or (in-process dict) an expired entry that the
\* caller goes on to delete
GetRead(k) ==
  LET e == store[k] IN
  IF backend = "redis"
  THEN \* s = r.get(key); json.loads(s) if s else None
       IF e.present /\ now < e.exp /\ e.val # ""
       THEN [expired |-> FALSE, data |-> JsonLoads(e.val)]
       ELSE [expired |-> FALSE, data |-> "None"]
  ELSE \* val = _mem.get(key); if not val: return None
       IF ~e.present THEN [expired |-> FALSE, data |-> "None"]
       ELSE IF e.exp # NoExpiry /\ e.exp # 0 /\ e.exp < now
            THEN [expired |-> TRUE, data |-> "None"]
            ELSE [expired |-> FALSE, data |-> e.val]

\* variant: every entry is stored with the fresh TTL
SetEx_one_ttl(k, ttl, obj) ==
  IF backend = "redis"
  THEN [store EXCEPT ![k] = Entry(JsonDumps(obj), now + Ttl)]
  ELSE [store EXCEPT ![k] = Entry(obj, now + Ttl)]

\* _setex(key, ttl, obj)
SetEx(k, ttl, obj) ==
  IF backend = "redis"
  THEN [store EXCEPT ![k] = Entry(JsonDumps(obj), now + ttl)]
  ELSE [store EXCEPT ![k] = Entry(obj, IF ttl # 0 THEN now + ttl ELSE NoExpiry)]

\* the counter value budget_ok and count_call read for day d
CountOf(d) ==
  IF backend = "redis"
  THEN IF counter[d].present /\ now < counter[d].exp THEN counter[d].n ELSE 0
  ELSE IF counter[d].present THEN counter[d].n ELSE 0

\* variant: the cap itself still counts as under budget
budget_ok_le(c) == c <= SoftCap

\* budget_ok(prefix): c < soft_cap
budget_ok(c) == c < SoftCap

\* the call returns (or raises) to its caller
Finish(t, kind, v) ==
  /\ pc'  = [pc EXCEPT ![t] = "done"]
  /\ ret' = [ret EXCEPT ![t] = [kind |-> kind, val |-> v]]
  /\ data' = [data EXCEPT ![t] = "None"]
  /\ cur' = [cur EXCEPT ![t] = NoCur]


\* ------------------------------------------------ rcache.cached_fetch steps
\* `if data is not None`
IsHit(d) == d # "None"

\* a thread enters cached_fetch(prefix, path, params, fetch_fn, ttl, stale_ttl);
\* the outcome of its previous call has gone to that call's caller
Call(t, q) ==
  /\ pc[t] \in {"idle", "done"}
  /\ pc'  = [pc EXCEPT ![t] = "get_fresh"]
  /\ req' = [req EXCEPT ![t] = q]
  /\ ret' = [ret EXCEPT ![t] = NoRet]
  /\ upstream' = [upstream EXCEPT ![t] = NoRet]
  /\ UNCHANGED <<backend, now, store, counter, data, cur, count0, started, succeeded, fetched>>
  /\ removed' = [removed EXCEPT ![t] = FALSE]
  /\ UNCHANGED <<ttlVars, swrVars, keyVars, storeVars, twinVars, schedVars, siteVars, lateVars>>

\* data = _get(fresh_key); if data is not None: return data
GetFresh(t) ==
  /\ pc[t] = "get_fresh"
  /\ LET g == GetRead(fresh_key(req[t])) IN
       IF g.expired
       THEN /\ pc' = [pc EXCEPT ![t] = "del_fresh"]
            /\ UNCHANGED <<ret, data, cur>>
       ELSE IF IsHit(g.data)
            THEN Finish(t, "fresh", g.data)
            ELSE /\ pc' = [pc EXCEPT ![t] = "budget"]
                 /\ UNCHANGED <<ret, data, cur>>
  /\ UNCHANGED <<backend, now, store, counter, req, upstream, count0, started, succeeded, fetched>>
  /\ UNCHANGED <<ttlVars, swrVars, auxVars>>

\* _get on the in-process dict, expired entry: del _mem[key]; return None
\* (a KeyError when another thread has deleted the key in between)
DelFresh(t) ==
  /\ pc[t] = "del_fresh"
  /\ LET k == fresh_key(req[t]) IN
       IF store[k].present
       THEN /\ store' = [store EXCEPT ![k] = Absent]
            /\ pc' = [pc EXCEPT ![t] = "budget"]
            /\ UNCHANGED <<ret, data, cur>>
       ELSE /\ Finish(t, "raised", "KeyError")
            /\ UNCHANGED store
  /\ UNCHANGED <<backend, now, counter, req, upstream, count0, started, succeeded, fetched>>
  /\ removed' = [removed EXCEPT ![t] = @ \/ Unexpired(store[fresh_key(req[t])])]
  /\ UNCHANGED <<ttlVars, swrVars, keyVars, storeVars, twinVars, schedVars, siteVars, lateVars>>

\* variant: the budget is read and the upstream call made regardless
Budget_ungated(t) ==
  /\ pc[t] = "budget"
  /\ pc' = [pc EXCEPT ![t] = "fetch"]
  /\ UNCHANGED <<backend, now, store, counter, req, data, cur, ret, upstream, count0, started, succeeded, fetched>>
  /\ UNCHANGED <<ttlVars, swrVars, auxVars>>

\* if not budget_ok(prefix): the counter of _day(prefix) is read here
Budget(t) ==
  /\ pc[t] = "budget"
  /\ pc' = [pc EXCEPT ![t] = IF budget_ok(CountOf(_day(now))) THEN "fetch" ELSE "get_stale"]
  /\ UNCHANGED <<backend, now, store, counter, req, data, cur, ret, upstream, count0, started, succeeded, fetched>>
  /\ UNCHANGED <<ttlVars, swrVars, auxVars>>

\* data = _get(stale_key); if data is not None: return data; raise RuntimeError
GetStale(t) ==
  /\ pc[t] = "get_stale"
  /\ LET g == GetRead(stale_key(req[t])) IN
       IF g.expired
       THEN /\ pc' = [pc EXCEPT ![t] = "del_stale"]
            /\ UNCHANGED <<ret, data, cur>>
       ELSE IF IsHit(g.data)
            THEN Finish(t, "stale", g.data)
            ELSE Finish(t, "raised", BudgetExhausted)
  /\ UNCHANGED <<backend, now, store, counter, req, upstream, count0, started, succeeded, fetched>>
  /\ UNCHANGED <<ttlVars, swrVars, auxVars>>

DelStale(t) ==
  /\ pc[t] = "del_stale"
  /\ LET k == stale_key(req[t]) IN
       IF store[k].present
       THEN /\ store' = [store EXCEPT ![k] = Absent]
            /\ Finish(t, "raised", BudgetExhausted)
       ELSE /\ Finish(t, "raised", "KeyError")
            /\ UNCHANGED store
  /\ UNCHANGED <<backend, now, counter, req, upstream, count0, started, succeeded, fetched>>
  /\ removed' = [removed EXCEPT ![t] = @ \/ Unexpired(store[stale_key(req[t])])]
  /\ UNCHANGED <<ttlVars, swrVars, keyVars, storeVars, twinVars, schedVars, siteVars, lateVars>>

RECURSIVE SumTo(_, _)
SumTo(f, d) == IF d < 0 THEN 0 ELSE f[d] + SumTo(f, d - 1)
TotalStarted == SumTo(started, MaxTime \div DayLen)

\* data = fetch_fn(): the upstream call begins ...
FetchBegin(t) ==
  /\ pc[t] = "fetch"
  /\ pc' = [pc EXCEPT ![t] = "fetching"]
  /\ started' = [started EXCEPT ![_day(now)] = @ + 1]
  /\ UNCHANGED <<backend, now, store, counter, req, data, cur, ret, upstream, count0, succeeded, fetched>>
  /\ UNCHANGED <<ttlVars, swrVars, auxVars>>

\* ... and returns v
FetchReturn(t, v) ==
  /\ pc[t] = "fetching"
  /\ data' = [data EXCEPT ![t] = v]
  /\ pc' = [pc EXCEPT ![t] = "set_fresh"]
  /\ succeeded' = [succeeded EXCEPT ![_day(now)] = @ + 1]
  /\ fetched' = [fetched EXCEPT ![req[t]] = @ \cup {v}]
  /\ upstream' = [upstream EXCEPT ![t] = [kind |-> "returned", val |-> v]]
  /\ UNCHANGED <<backend, now, store, counter, req, cur, ret, count0, started>>
  /\ UNCHANGED <<ttlVars, swrVars, auxVars>>

\* variant: a failed upstream call falls back to the stale entry
FetchRaise_fallback(t, e) ==
  /\ pc[t] = "fetching"
  /\ IF Unexpired(store[stale_key(req[t])])
     THEN Finish(t, "stale", Held(store[stale_key(req[t])]))
     ELSE Finish(t, "raised", e)
  /\ upstream' = [upstream EXCEPT ![t] = [kind |-> "raised", val |-> e]]
  /\ UNCHANGED <<backend, now, store, counter, req, count0, started, succeeded, fetched>>
  /\ UNCHANGED <<ttlVars, swrVars, auxVars>>

\* ... or raises e: nothing in cached_fetch catches it
FetchRaise(t, e) ==
  /\ pc[t] = "fetching"
  /\ Finish(t, "raised", e)
  /\ upstream' = [upstream EXCEPT ![t] = [kind |-> "raised", val |-> e]]
  /\ UNCHANGED <<backend, now, store, counter, req, count0, started, succeeded, fetched>>
  /\ UNCHANGED <<ttlVars, swrVars, auxVars>>

\* _setex(fresh_key, ttl, data)
SetFresh(t) ==
  /\ pc[t] = "set_fresh"
  /\ store' = SetEx(fresh_key(req[t]), Ttl, data[t])
  /\ pc' = [pc EXCEPT ![t] = "set_stale"]
  /\ UNCHANGED <<backend, now, counter, req, data, cur, ret, upstream, count0, started, succeeded, fetched>>
  /\ UNCHANGED <<ttlVars, swrVars, auxVars>>

\* _setex(stale_key, stale_ttl, data)
SetStale(t) ==
  /\ pc[t] = "set_stale"
  /\ store' = SetEx(stale_key(req[t]), StaleTtl, data[t])
  /\ pc' = [pc EXCEPT ![t] = "count"]
  /\ UNCHANGED <<backend, now, counter, req, data, cur, ret, upstream, count0, started, succeeded, fetched>>
  /\ UNCHANGED <<ttlVars, swrVars, auxVars>>

\* variant: count_call stores the count it read, adding nothing
Counted_unchanged(n) ==
  [present |-> TRUE, n |-> n - 1, exp |-> IF backend = "redis" THEN now + CountKeep ELSE NoExpiry]

\* the counter entry count_call writes: n calls, kept for ~26h. The dict
\* entry's timestamp is written and never read (budget_ok and count_call take
\* the count alone), so it is left out of the state.
Counted(n) ==
  [present |-> TRUE, n |-> n, exp |-> IF backend = "redis" THEN now + CountKeep ELSE NoExpiry]

\* count_call(prefix, 1); return data
\* Redis: INCRBY and EXPIRE in one MULTI/EXEC pipeline.
\* In-process dict: the counter is read here and written in CountWrite.
CountCall(t) ==
  /\ pc[t] = "count"
  /\ IF backend = "redis"
     THEN /\ counter' = [counter EXCEPT ![_day(now)] = Counted(CountOf(_day(now)) + 1)]
          /\ Finish(t, "fetched", data[t])
     ELSE /\ cur' = [cur EXCEPT ![t] = [day |-> _day(now), n |-> CountOf(_day(now))]]
          /\ pc' = [pc EXCEPT ![t] = "count_write"]
          /\ UNCHANGED <<counter, ret, data>>
  /\ UNCHANGED <<backend, now, store, req, upstream, count0, started, succeeded, fetched>>
  /\ UNCHANGED <<ttlVars, swrVars, auxVars>>

\* _mem[key] = (time.time()+60*60*26, cur + n); return data
CountWrite(t) ==
  /\ pc[t] = "count_write"
  /\ counter' = [counter EXCEPT ![cur[t].day] = Counted(cur[t].n + 1)]
  /\ Finish(t, "fetched", data[t])
  /\ UNCHANGED <<backend, now, store, req, upstream, count0, started, succeeded, fetched>>
  /\ UNCHANGED <<ttlVars, swrVars, auxVars>>

\* Redis drops a key when its TTL has run out; the dict keeps it until _get
Expire(s, t) ==
  IF backend = "redis"
  THEN [k \in DOMAIN s |-> IF s[k].present /\ s[k].exp <= t THEN Absent ELSE s[k]]
  ELSE s
ExpireCount(c, t) ==
  IF backend = "redis"
  THEN [d \in DOMAIN c |-> IF c[d].present /\ c[d].exp <= t THEN NoCount ELSE c[d]]
  ELSE c

\* time passes
Tick ==
  /\ now < MaxTime
  /\ now' = now + 1
  /\ store' = Expire(store, now + 1)
  /\ counter' = ExpireCount(counter, now + 1)
  /\ UNCHANGED <<backend, pc, req, data, cur, ret, upstream, count0, started, succeeded, fetched>>
  /\ UNCHANGED <<ttlVars, swrVars, auxVars>>

Step(t) ==
  \/ GetFresh(t) \/ DelFresh(t) \/ Budget(t) \/ GetStale(t) \/ DelStale(t)
  \/ (TotalStarted < MaxFetches /\ FetchBegin(t))
  \/ \E v \in Values : FetchReturn(t, v)
  \/ \E e \in Errors : FetchRaise(t, e)
  \/ SetFresh(t) \/ SetStale(t) \/ CountCall(t) \/ CountWrite(t)

\* the request the concurrent callers share
SharedRequests == {q \in Requests : q.path = "/players"}

\* threads of one process call cached_fetch concurrently, all for one request
Next ==
  \/ \E t \in Threads : \E q \in SharedRequests : Call(t, q)
  \/ \E t \in Threads : Step(t)
  \/ Tick

Spec == Init /\ [][Next]_vars

\* calls of cached_fetch that do not overlap: one thread makes them one after
\* another, for any of the requests
MainThread == "t1"

NextSeq ==
  \/ \E q \in Requests : Call(MainThread, q)
  \/ Step(MainThread)
  \/ Tick

SpecSeq == Init /\ [][NextSeq]_vars

TypeOK ==
  /\ backend \in Backends
  /\ now \in 0..MaxTime
  /\ \A t \in Threads : pc[t] \in {"idle", "done", "get_fresh", "del_fresh", "budget", "get_stale",
        "del_stale", "fetch", "fetching", "set_fresh", "set_stale", "count", "count_write"}

\* ------------------------------------- the check/increment race on its own
\* each thread calls for a key of its own, and fetch_fn succeeds
RaceRequest(t) ==
  IF t = MainThread THEN [path |-> "/players", params |-> << <<"search", "x">> >>]
                    ELSE [path |-> "/games",   params |-> << <<"date", "d">> >>]
RacePayload == "dict(id=1)"

RaceStep(t) ==
  \/ GetFresh(t) \/ DelFresh(t) \/ Budget(t) \/ GetStale(t) \/ DelStale(t)
  \/ (TotalStarted < MaxRaceFetches /\ FetchBegin(t))
  \/ FetchReturn(t, RacePayload)
  \/ SetFresh(t) \/ SetStale(t) \/ CountCall(t) \/ CountWrite(t)

NextRace ==
  \/ \E t \in Threads : Call(t, RaceRequest(t))
  \/ \E t \in Threads : RaceStep(t)
  \/ Tick

InitRace ==
  /\ count0 = SoftCap - RaceHeadroom
  /\ InitStores
  /\ InitAux

SpecRace == InitRace /\ [][NextRace]_vars

\* ------------------------------------------------- count_call on its own

\* a thread reaches count_call(prefix, 1), line 78 of cached_fetch: what led
\* it there is left out
CountEnter(t) ==
  /\ pc[t] \in {"idle", "done"}
  /\ CountOf(_day(now)) < SoftCap + MaxOver
  /\ pc'  = [pc EXCEPT ![t] = "count"]
  /\ ret' = [ret EXCEPT ![t] = NoRet]
  /\ UNCHANGED <<backend, now, store, counter, req, data, cur, upstream, count0, started, succeeded, fetched>>
  /\ UNCHANGED <<ttlVars, swrVars, auxVars>>

NextCount ==
  \/ \E t \in Threads : CountEnter(t)
  \/ \E t \in Threads : CountCall(t)
  \/ \E t \in Threads : CountWrite(t)
  \/ Tick

SpecCount == Init /\ [][NextCount]_vars

\* ------------------------------------------- _get and _setex on their own
\* the ttl values the call sites pass
Ttls == {Ttl, StaleTtl}
\* the key the threads share
SharedKeys == {fresh_key(q) : q \in SharedRequests}

\* a thread calls _setex(key, ttl, obj): one SETEX, or one dict assignment
StoreSetex(t, k, ttl, obj) ==
  /\ gpc[t] \in {"idle", "done"}
  /\ store' = SetEx(k, ttl, obj)
  /\ lastset' = [lastset EXCEPT ![k] = [set |-> TRUE, val |-> obj, at |-> now, ttl |-> ttl]]
  /\ UNCHANGED <<backend, now, counter, pc, req, data, cur, ret, upstream, count0, started, succeeded, fetched>>
  /\ UNCHANGED <<ttlVars, swrVars, frameVars, siteVars, lateVars, schedVars, keyVars, twinVars, gpc, gkey, gret>>

\* a thread calls _get(key)
StoreGetCall(t, k) ==
  /\ gpc[t] \in {"idle", "done"}
  /\ gpc'  = [gpc EXCEPT ![t] = "get"]
  /\ gkey' = [gkey EXCEPT ![t] = k]
  /\ gret' = [gret EXCEPT ![t] = NoRet]
  /\ UNCHANGED <<now, rcVars, ttlVars, swrVars, frameVars, siteVars, lateVars, schedVars, keyVars, twinVars, lastset>>

\* _get: r.get(key) and json.loads, or _mem.get(key) and the expiry test
StoreGet(t) ==
  /\ gpc[t] = "get"
  /\ LET g == GetRead(gkey[t]) IN
       IF g.expired
       THEN /\ gpc' = [gpc EXCEPT ![t] = "del"]
            /\ UNCHANGED gret
       ELSE /\ gpc' = [gpc EXCEPT ![t] = "done"]
            /\ gret' = [gret EXCEPT ![t] = [kind |-> "returned", val |-> g.data]]
  /\ UNCHANGED <<now, rcVars, ttlVars, swrVars, frameVars, siteVars, lateVars, schedVars, keyVars, twinVars, gkey, lastset>>

\* _get on the in-process dict, expired entry: del _mem[key]; return None
\* (a KeyError when another thread has deleted the key in between)
StoreDel(t) ==
  /\ gpc[t] = "del"
  /\ gpc' = [gpc EXCEPT ![t] = "done"]
  /\ IF store[gkey[t]].present
     THEN /\ store' = [store EXCEPT ![gkey[t]] = Absent]
          /\ gret' = [gret EXCEPT ![t] = [kind |-> "returned", val |-> "None"]]
     ELSE /\ gret' = [gret EXCEPT ![t] = [kind |-> "raised", val |-> "KeyError"]]
          /\ UNCHANGED store
  /\ UNCHANGED <<backend, now, counter, pc, req, data, cur, ret, upstream, count0, started, succeeded, fetched>>
  /\ UNCHANGED <<ttlVars, swrVars, frameVars, siteVars, lateVars, schedVars, keyVars, twinVars, gkey, lastset>>

NextStore ==
  \/ \E t \in Threads : \E k \in SharedKeys : \E ttl \in Ttls : \E v \in Values :
       StoreSetex(t, k, ttl, v)
  \/ \E t \in Threads : \E k \in SharedKeys : StoreGetCall(t, k)
  \/ \E t \in Threads : StoreGet(t)
  \/ \E t \in Threads : StoreDel(t)
  \/ Tick

SpecStore == Init /\ [][NextStore]_vars

\* ------------------------ cached_fetch as one step, on a given backend
\* What one call of cached_fetch that nothing interleaves with does to the
\* store st and the counters cn of backend b at time t.

\* _get(key) on store st: the data returned and the store it leaves
GetOn(b, st, k, t) ==
  LET e == st[k] IN
  IF b = "redis"
  THEN [data  |-> IF e.present /\ t < e.exp /\ e.val # "" THEN JsonLoads(e.val) ELSE "None",
        store |-> st]
  ELSE IF ~e.present THEN [data |-> "None", store |-> st]
       ELSE IF e.exp # NoExpiry /\ e.exp # 0 /\ e.exp < t
            THEN [data |-> "None", store |-> [st EXCEPT ![k] = Absent]]
            ELSE [data |-> e.val, store |-> st]

\* _setex(key, ttl, obj) on store st
SetOn(b, st, k, ttl, obj, t) ==
  IF b = "redis"
  THEN [st EXCEPT ![k] = Entry(JsonDumps(obj), t + ttl)]
  ELSE [st EXCEPT ![k] = Entry(obj, IF ttl # 0 THEN t + ttl ELSE NoExpiry)]

\* the count budget_ok and count_call read for day d
CountOn(b, cn, d, t) ==
  IF b = "redis"
  THEN IF cn[d].present /\ t < cn[d].exp THEN cn[d].n ELSE 0
  ELSE IF cn[d].present THEN cn[d].n ELSE 0

\* count_call(prefix, 1) on counters cn
CountCallOn(b, cn, t) ==
  [cn EXCEPT ![_day(t)] =
     [present |-> TRUE, n |-> CountOn(b, cn, _day(t), t) + 1,
      exp |-> IF b = "redis" THEN t + CountKeep ELSE NoExpiry]]

\* variant: the upstream call is counted before its outcome is known
FetchOn_counted(b, side, t, q, out) ==
  LET fresh == GetOn(b, side.store, fresh_key(q), t) IN
  IF IsHit(fresh.data)
  THEN [store |-> fresh.store, counter |-> side.counter,
        ret |-> [kind |-> "fresh", val |-> fresh.data], invoked |-> FALSE]
  ELSE IF ~budget_ok(CountOn(b, side.counter, _day(t), t))
       THEN LET stale == GetOn(b, fresh.store, stale_key(q), t) IN
            [store |-> stale.store, counter |-> side.counter,
             ret |-> IF IsHit(stale.data) THEN [kind |-> "stale", val |-> stale.data]
                     ELSE [kind |-> "raised", val |-> BudgetExhausted],
             invoked |-> FALSE]
       ELSE IF out.kind = "raised"
            THEN [store |-> fresh.store, counter |-> CountCallOn(b, side.counter, t),
                  ret |-> [kind |-> "raised", val |-> out.val], invoked |-> TRUE]
            ELSE [store |-> SetOn(b, SetOn(b, fresh.store, fresh_key(q), Ttl, out.val, t),
                                  stale_key(q), StaleTtl, out.val, t),
                  counter |-> CountCallOn(b, side.counter, t),
                  ret |-> [kind |-> "fetched", val |-> out.val], invoked |-> TRUE]

\* cached_fetch(prefix, path, params, fetch_fn) for request q, fetch_fn
\* returning or raising `out` when it is invoked
FetchOn(b, side, t, q, out) ==
  LET fresh == GetOn(b, side.store, fresh_key(q), t) IN
  IF IsHit(fresh.data)
  THEN [store |-> fresh.store, counter |-> side.counter,
        ret |-> [kind |-> "fresh", val |-> fresh.data], invoked |-> FALSE]
  ELSE IF ~budget_ok(CountOn(b, side.counter, _day(t), t))
       THEN LET stale == GetOn(b, fresh.store, stale_key(q), t) IN
            [store |-> stale.store, counter |-> side.counter,
             ret |-> IF IsHit(stale.data) THEN [kind |-> "stale", val |-> stale.data]
                     ELSE [kind |-> "raised", val |-> BudgetExhausted],
             invoked |-> FALSE]
       ELSE IF out.kind = "raised"
            THEN [store |-> fresh.store, counter |-> side.counter,
                  ret |-> [kind |-> "raised", val |-> out.val], invoked |-> TRUE]
            ELSE [store |-> SetOn(b, SetOn(b, fresh.store, fresh_key(q), Ttl, out.val, t),
                                  stale_key(q), StaleTtl, out.val, t),
                  counter |-> CountCallOn(b, side.counter, t),
                  ret |-> [kind |-> "fetched", val |-> out.val], invoked |-> TRUE]

\* what fetch_fn can do
Outcomes == [kind : {"returned"}, val : Values] \cup [kind : {"raised"}, val : Errors]

\* an entry of request q runs out at this very instant
AtExpiry(q) ==
  \E b \in Backends : \E k \in {fresh_key(q), stale_key(q)} :
    twin[b].store[k].present /\ twin[b].store[k].exp = now

\* the same call is made on both backends; the run is followed up to the
\* first call made at an expiry instant
TwinCall(q, out) ==
  /\ ~edge
  /\ twin' = [b \in Backends |-> FetchOn(b, twin[b], now, q, out)]
  /\ edge' = (edge \/ AtExpiry(q))
  /\ UNCHANGED <<now, rcVars, ttlVars, swrVars, frameVars, siteVars, lateVars, schedVars, keyVars, storeVars>>

\* time passes on both backends: Redis drops what has run out
TwinTick ==
  /\ ~edge
  /\ now < MaxTime
  /\ now' = now + 1
  /\ twin' = [b \in Backends |->
       IF b = "redis"
       THEN [twin[b] EXCEPT
               !.store = [k \in StoreKeys |->
                            IF @[k].present /\ @[k].exp <= now + 1 THEN Absent ELSE @[k]],
               !.counter = [d \in Days |->
                            IF @[d].present /\ @[d].exp <= now + 1 THEN NoCount ELSE @[d]]]
       ELSE twin[b]]
  /\ UNCHANGED <<rcVars, ttlVars, swrVars, frameVars, siteVars, lateVars, schedVars, keyVars, storeVars, edge>>

NextTwin ==
  \/ \E q \in Requests : \E out \in Outcomes : TwinCall(q, out)
  \/ TwinTick

\* both backends start with the same count of earlier calls of the day
InitTwin ==
  /\ InitCaches /\ backend = "redis"
  /\ kin = NoKin /\ kout = <<NoKey, NoKey>>
  /\ RestStore
  /\ RestFrame
  /\ RestSites
  /\ RestLate
  /\ RestSched
  /\ twin = [b \in Backends |->
       [NoSide EXCEPT !.counter =
          [d \in Days |-> IF d = 0 /\ count0 > 0
                          THEN [present |-> TRUE, n |-> count0,
                                exp |-> IF b = "redis" THEN CountKeep ELSE NoExpiry]
                          ELSE NoCount]]]
  /\ edge = FALSE

SpecTwin == InitTwin /\ [][NextTwin]_vars

\* ======================================================= cache_ttl.py
\* cache_get(key): the JSON value under key, None when absent
cache_get(k) ==
  IF tstore[k].present /\ now < tstore[k].exp THEN JsonLoads(tstore[k].val) ELSE "None"

\* cache_set(key, obj, ttl_seconds): SETEX of the JSON text
cache_set(k, obj, ttl) == [tstore EXCEPT ![k] = Entry(JsonDumps(obj), now + ttl)]

\* the call leaves the `with lock:` block with an outcome
Leave(t, kind, v) ==
  /\ tpc'  = [tpc EXCEPT ![t] = "release"]
  /\ tret' = [tret EXCEPT ![t] = [kind |-> kind, val |-> v]]

\* the calls and background threads in progress that may still invoke fetch_fn
Pending ==
  Cardinality({t \in Threads : tpc[t] \in {"setdefault", "lookup", "acquire", "get", "fetch"}})
  + Cardinality({t \in Threads : spc[t] \in {"get", "fetch"}})
  + Cardinality({i \in BgIds : bg[i].st = "start"})
\* a call is explored only while an upstream invocation is left for it
Reserved == tstarted + Pending

\* the thread is in neither function of cache_ttl.py
Outside(t) == tpc[t] \in {"idle", "done"} /\ spc[t] \in {"idle", "done"}

\* a thread enters cached_fetch(key, ttl_seconds, fetch_fn)
TCall(t, k) ==
  /\ Outside(t)
  /\ Reserved < MaxFetches
  /\ tpc'  = [tpc EXCEPT ![t] = "setdefault"]
  /\ tkey' = [tkey EXCEPT ![t] = k]
  /\ tret' = [tret EXCEPT ![t] = NoRet]
  /\ twait' = [twait EXCEPT ![t] =
                 IF \E u \in Threads \ {t} : tpc[u] = "fetching" /\ tkey[u] = k
                 THEN "inflight" ELSE "none"]
  /\ UNCHANGED <<now, rcVars, auxVars, swrVars, locks, held, tstore, tlock, tdata, tstarted>>

\* variant: _locks[key] = threading.Lock(), a new lock on every call
SetDefault_fresh(t) ==
  /\ tpc[t] = "setdefault"
  /\ locks' = [locks EXCEPT ![tkey[t]] = <<tkey[t], t>>]
  /\ tpc' = [tpc EXCEPT ![t] = "lookup"]
  /\ UNCHANGED <<now, rcVars, auxVars, swrVars, held, tstore, tkey, tlock, tdata, tret, tstarted, twait>>

\* _lock_for: _locks.setdefault(key, threading.Lock())
SetDefault(t) ==
  /\ tpc[t] = "setdefault"
  /\ locks' = IF locks[tkey[t]] = NoLock
              THEN [locks EXCEPT ![tkey[t]] = <<tkey[t], t>>]
              ELSE locks
  /\ tpc' = [tpc EXCEPT ![t] = "lookup"]
  /\ UNCHANGED <<now, rcVars, auxVars, swrVars, held, tstore, tkey, tlock, tdata, tret, tstarted, twait>>

\* variant: return threading.Lock(), a lock of the caller's own
Lookup_own(t) ==
  /\ tpc[t] = "lookup"
  /\ tlock' = [tlock EXCEPT ![t] = <<tkey[t], t>>]
  /\ tpc' = [tpc EXCEPT ![t] = "acquire"]
  /\ UNCHANGED <<now, rcVars, auxVars, swrVars, locks, held, tstore, tkey, tdata, tret, tstarted, twait>>

\* _lock_for: return _locks[key]
Lookup(t) ==
  /\ tpc[t] = "lookup"
  /\ tlock' = [tlock EXCEPT ![t] = locks[tkey[t]]]
  /\ tpc' = [tpc EXCEPT ![t] = "acquire"]
  /\ UNCHANGED <<now, rcVars, auxVars, swrVars, locks, held, tstore, tkey, tdata, tret, tstarted, twait>>

\* with lock: the thread blocks until the lock is free
Acquire(t) ==
  /\ tpc[t] = "acquire"
  /\ held[tlock[t]] = Free
  /\ held' = [held EXCEPT ![tlock[t]] = t]
  /\ tpc' = [tpc EXCEPT ![t] = "get"]
  /\ UNCHANGED <<now, rcVars, auxVars, swrVars, locks, tstore, tkey, tlock, tdata, tret, tstarted, twait>>

\* hit = cache_get(key); if hit is not None: return hit
CacheGet(t) ==
  /\ tpc[t] = "get"
  /\ IF cache_get(tkey[t]) # "None"
     THEN Leave(t, "hit", cache_get(tkey[t]))
     ELSE /\ tpc' = [tpc EXCEPT ![t] = "fetch"]
          /\ UNCHANGED tret
  /\ UNCHANGED <<now, rcVars, auxVars, swrVars, locks, held, tstore, tkey, tlock, tdata, tstarted, twait>>

\* data = fetch_fn(): the upstream call begins ...
TFetchBegin(t) ==
  /\ tpc[t] = "fetch"
  /\ tstarted < MaxFetches
  /\ tstarted' = tstarted + 1
  /\ tpc' = [tpc EXCEPT ![t] = "fetching"]
  /\ UNCHANGED <<now, rcVars, auxVars, swrVars, locks, held, tstore, tkey, tlock, tdata, tret, twait>>

\* the callers that arrived during t's fetch_fn learn how it ended
Waited(t, how) ==
  [u \in Threads |-> IF u # t /\ twait[u] = "inflight" /\ tkey[u] = tkey[t]
                      THEN how ELSE twait[u]]

\* ... and returns v
TFetchReturn(t, v) ==
  /\ tpc[t] = "fetching"
  /\ tdata' = [tdata EXCEPT ![t] = v]
  /\ tpc' = [tpc EXCEPT ![t] = "set"]
  /\ twait' = Waited(t, "returned")
  /\ UNCHANGED <<now, rcVars, auxVars, swrVars, locks, held, tstore, tkey, tlock, tret, tstarted>>

\* ... or raises e, which leaves the with block
TFetchRaise(t, e) ==
  /\ tpc[t] = "fetching"
  /\ Leave(t, "raised", e)
  /\ twait' = Waited(t, "raised")
  /\ UNCHANGED <<now, rcVars, auxVars, swrVars, locks, held, tstore, tkey, tlock, tdata, tstarted>>

\* cache_set(key, data, ttl_seconds); return data
CacheSet(t) ==
  /\ tpc[t] = "set"
  /\ tstore' = cache_set(tkey[t], tdata[t], Ttl)
  /\ Leave(t, "fetched", tdata[t])
  /\ tdata' = [tdata EXCEPT ![t] = "None"]
  /\ UNCHANGED <<now, rcVars, auxVars, swrVars, locks, held, tkey, tlock, tstarted, twait>>

\* cache_set raises (Redis unreachable, value not serialisable): nothing is
\* stored and the exception leaves the with block
CacheSetRaise(t, e) ==
  /\ tpc[t] = "set"
  /\ Leave(t, "raised", e)
  /\ tdata' = [tdata EXCEPT ![t] = "None"]
  /\ UNCHANGED <<now, rcVars, auxVars, swrVars, locks, held, tstore, tkey, tlock, tstarted, twait>>

\* variant: lock.acquire() ... lock.release() with no try/finally, so an
\* exception leaves the lock held
Release_on_return(t) ==
  /\ tpc[t] = "release"
  /\ held' = IF tret[t].kind = "raised" THEN held ELSE [held EXCEPT ![tlock[t]] = Free]
  /\ tlock' = [tlock EXCEPT ![t] = NoLock]
  /\ tpc' = [tpc EXCEPT ![t] = "done"]
  /\ UNCHANGED <<now, rcVars, auxVars, swrVars, locks, tstore, tkey, tdata, tret, tstarted, twait>>

\* the with block releases the lock on every way out
Release(t) ==
  /\ tpc[t] = "release"
  /\ held' = [held EXCEPT ![tlock[t]] = Free]
  /\ tlock' = [tlock EXCEPT ![t] = NoLock]
  /\ tpc' = [tpc EXCEPT ![t] = "done"]
  /\ UNCHANGED <<now, rcVars, auxVars, swrVars, locks, tstore, tkey, tdata, tret, tstarted, twait>>

\* time passes; Redis drops the keys whose TTL has run out
TTick ==
  /\ now < MaxTime
  /\ now' = now + 1
  /\ tstore' = [k \in TKeys |-> IF tstore[k].present /\ tstore[k].exp <= now + 1
                                THEN Absent ELSE tstore[k]]
  /\ UNCHANGED <<rcVars, auxVars, swrVars, locks, held, tpc, tkey, tlock, tdata, tret, tstarted, twait>>

TStep(t) ==
  \/ SetDefault(t) \/ Lookup(t) \/ Acquire(t) \/ CacheGet(t)
  \/ TFetchBegin(t)
  \/ \E v \in Values : TFetchReturn(t, v)
  \/ \E e \in Errors : TFetchRaise(t, e)
  \/ CacheSet(t)
  \/ \E e \in StoreErrors : CacheSetRaise(t, e)
  \/ Release(t)

NextCacheTtl ==
  \/ \E t \in Threads : \E k \in TKeys : TCall(t, k)
  \/ \E t \in Threads : TStep(t)
  \/ TTick

InitCacheTtl == Init /\ backend = "redis" /\ count0 = SoftCap

SpecCacheTtl == InitCacheTtl /\ [][NextCacheTtl]_vars

\* every thread inside cached_fetch keeps running (fetch_fn and the store
\* calls terminate), and a thread blocked on a lock that is released again
\* and again gets it in the end
\* The callers contend for one key.
NextSameKey ==
  \/ \E t \in Threads : TCall(t, AnyKey)
  \/ \E t \in Threads : TStep(t)
  \/ TTick

SpecCacheTtlFair ==
  /\ InitCacheTtl /\ [][NextSameKey]_vars
  /\ \A t \in Threads : WF_vars(TStep(t)) /\ SF_vars(Acquire(t))

\* ========================================= cache_ttl.stale_while_revalidate
\* int(time.time()) at tick 0: unix time is far beyond any TTL
Epoch == 1000
UnixTime(t) == Epoch + t

\* what a fetch_fn can return at tick t: None, a payload without meta, and a
\* payload whose meta.cached_at is the time of the fetch
SwrValues(t) == {"None", "dict(id=1)", Tagged(t)}

\* ((cur or {}).get("meta") or {}).get("cached_at", 0)
CachedAt(v) == IF IsTagged(v) THEN UnixTime(TagTime(v)) ELSE 0
\* age = now - cached_at, with the caller's reading of the clock
AgeOf(v, t) == UnixTime(t) - CachedAt(v)

\* variant: any cached value is served, whatever its age
Acceptable_anyage(c, age) == c # "None"

\* if cur is not None: ... if age <= hard_ttl
Acceptable(c, age) == c # "None" /\ age <= HardTtl

\* variant: no refresh is ever started
NeedsRefresh_never(age) == FALSE

\* variant: every served read starts a refresh
NeedsRefresh_always(age) == TRUE

\* if age >= soft_ttl
NeedsRefresh(age) == age >= SoftTtl

\* the background threads started so far, and the next Thread object
Born == {i \in BgIds : bg[i].st # "unborn"}
NewBg == CHOOSE i \in BgIds : bg[i].st = "unborn" /\ \A j \in BgIds : j < i => bg[j].st # "unborn"

\* a thread enters stale_while_revalidate(key, soft_ttl, hard_ttl, fetch_fn):
\* now = int(time.time())
SCall(t, k) ==
  /\ Outside(t)
  /\ spc'  = [spc EXCEPT ![t] = "get"]
  /\ skey' = [skey EXCEPT ![t] = k]
  /\ snow' = [snow EXCEPT ![t] = now]
  /\ sret' = [sret EXCEPT ![t] = NoRet]
  /\ UNCHANGED <<now, rcVars, auxVars, ttlVars, sdata, bg>>

\* cur = cache_get(key); an acceptable value is returned, after starting the
\* background thread when it is past soft_ttl
SGet(t) ==
  /\ spc[t] = "get"
  /\ LET c == cache_get(skey[t])
         age == AgeOf(c, snow[t]) IN
       IF Acceptable(c, age)
       THEN /\ spc'  = [spc EXCEPT ![t] = "done"]
            /\ sret' = [sret EXCEPT ![t] = [kind |-> "cached", val |-> c]]
            /\ bg' = IF NeedsRefresh(age)
                     THEN [bg EXCEPT ![NewBg] = [st |-> "start", key |-> skey[t],
                                                 data |-> "None", at |-> 0]]
                     ELSE bg
       ELSE /\ spc' = [spc EXCEPT ![t] = "fetch"]
            /\ UNCHANGED <<sret, bg>>
  /\ UNCHANGED <<now, rcVars, auxVars, ttlVars, skey, snow, sdata>>

\* data = fetch_fn() in the calling thread: the upstream call begins ...
SFetchBegin(t) ==
  /\ spc[t] = "fetch"
  /\ spc' = [spc EXCEPT ![t] = "fetching"]
  /\ tstarted' = tstarted + 1
  /\ UNCHANGED <<now, rcVars, auxVars, locks, held, tstore, tpc, tkey, tlock, tdata, tret, twait,
                 skey, snow, sdata, sret, bg>>

\* ... and returns v
SFetchReturn(t, v) ==
  /\ spc[t] = "fetching"
  /\ sdata' = [sdata EXCEPT ![t] = v]
  /\ spc' = [spc EXCEPT ![t] = "set"]
  /\ UNCHANGED <<now, rcVars, auxVars, ttlVars, skey, snow, sret, bg>>

\* variant: the failure is caught and the call returns None
SFetchRaise_swallow(t, e) ==
  /\ spc[t] = "fetching"
  /\ spc' = [spc EXCEPT ![t] = "done"]
  /\ sret' = [sret EXCEPT ![t] = [kind |-> "fetched", val |-> "None"]]
  /\ UNCHANGED <<now, rcVars, auxVars, ttlVars, skey, snow, sdata, bg>>

\* ... or raises e, which nothing catches
SFetchRaise(t, e) ==
  /\ spc[t] = "fetching"
  /\ spc' = [spc EXCEPT ![t] = "done"]
  /\ sret' = [sret EXCEPT ![t] = [kind |-> "raised", val |-> e]]
  /\ UNCHANGED <<now, rcVars, auxVars, ttlVars, skey, snow, sdata, bg>>

\* cache_set(key, data, hard_ttl); return data
SSet(t) ==
  /\ spc[t] = "set"
  /\ tstore' = cache_set(skey[t], sdata[t], HardTtl)
  /\ spc' = [spc EXCEPT ![t] = "done"]
  /\ sret' = [sret EXCEPT ![t] = [kind |-> "fetched", val |-> sdata[t]]]
  /\ sdata' = [sdata EXCEPT ![t] = "None"]
  /\ UNCHANGED <<now, rcVars, auxVars, locks, held, tpc, tkey, tlock, tdata, tret, tstarted, twait,
                 skey, snow, bg>>

\* cache_set raises: nothing is stored, the exception goes to the caller
SSetRaise(t, e) ==
  /\ spc[t] = "set"
  /\ spc' = [spc EXCEPT ![t] = "done"]
  /\ sret' = [sret EXCEPT ![t] = [kind |-> "raised", val |-> e]]
  /\ sdata' = [sdata EXCEPT ![t] = "None"]
  /\ UNCHANGED <<now, rcVars, auxVars, ttlVars, skey, snow, bg>>

\* _bg: fresh = fetch_fn() in the background thread: the upstream call begins ...
BgBegin(i) ==
  /\ bg[i].st = "start"
  /\ bg' = [bg EXCEPT ![i].st = "fetching"]
  /\ tstarted' = tstarted + 1
  /\ UNCHANGED <<now, rcVars, auxVars, locks, held, tstore, tpc, tkey, tlock, tdata, tret, twait,
                 spc, skey, snow, sdata, sret>>

\* ... and returns v
BgReturn(i, v) ==
  /\ bg[i].st = "fetching"
  /\ bg' = [bg EXCEPT ![i].st = "set", ![i].data = v]
  /\ UNCHANGED <<now, rcVars, auxVars, ttlVars, spc, skey, snow, sdata, sret>>

\* variant: a failed refresh drops the cached entry
BgRaise_evict(i, e) ==
  /\ bg[i].st = "fetching"
  /\ bg' = [bg EXCEPT ![i].st = "failed"]
  /\ tstore' = [tstore EXCEPT ![bg[i].key] = Absent]
  /\ UNCHANGED <<now, rcVars, auxVars, locks, held, tpc, tkey, tlock, tdata, tret, tstarted, twait,
                 spc, skey, snow, sdata, sret>>

\* ... or raises: except Exception: pass
BgRaise(i, e) ==
  /\ bg[i].st = "fetching"
  /\ bg' = [bg EXCEPT ![i].st = "failed"]
  /\ UNCHANGED <<now, rcVars, auxVars, ttlVars, spc, skey, snow, sdata, sret>>

\* _bg: cache_set(key, fresh, hard_ttl); the thread is then done, and the model
\* keeps what it stored and when
BgSet(i) ==
  /\ bg[i].st = "set"
  /\ tstore' = cache_set(bg[i].key, bg[i].data, HardTtl)
  /\ bg' = [bg EXCEPT ![i].st = "done", ![i].at = now]
  /\ UNCHANGED <<now, rcVars, auxVars, locks, held, tpc, tkey, tlock, tdata, tret, tstarted, twait,
                 spc, skey, snow, sdata, sret>>

\* _bg: cache_set raises: except Exception: pass
BgSetRaise(i, e) ==
  /\ bg[i].st = "set"
  /\ bg' = [bg EXCEPT ![i].st = "failed", ![i].data = "None"]
  /\ UNCHANGED <<now, rcVars, auxVars, ttlVars, spc, skey, snow, sdata, sret>>

SStep(t) ==
  \/ SGet(t)
  \/ SFetchBegin(t)
  \/ \E v \in SwrValues(now) : SFetchReturn(t, v)
  \/ \E e \in Errors : SFetchRaise(t, e)
  \/ SSet(t)
  \/ \E e \in StoreErrors : SSetRaise(t, e)

BgStep(i) ==
  \/ BgBegin(i)
  \/ \E v \in SwrValues(now) : BgReturn(i, v)
  \/ \E e \in Errors : BgRaise(i, e)
  \/ BgSet(i)
  \/ \E e \in StoreErrors : BgSetRaise(i, e)

\* the callers of stale_while_revalidate use one key
NextSwr ==
  \/ \E t \in Threads : Reserved < MaxFetches /\ SCall(t, AnyKey)
  \/ \E t \in Threads : SStep(t)
  \/ \E i \in BgIds : BgStep(i)
  \/ TTick

SpecSwr == InitCacheTtl /\ [][NextSwr]_vars

\* every caller and every background thread keeps running: fetch_fn and the
\* store calls terminate
\* The run is one upstream invocation longer, so that a call can follow a
\* finished background revalidation.
NextSwrLong ==
  \/ \E t \in Threads : Reserved < MaxSwrFetches /\ SCall(t, AnyKey)
  \/ \E t \in Threads : SStep(t)
  \/ \E i \in BgIds : BgStep(i)
  \/ TTick

SpecSwrFair ==
  /\ InitCacheTtl /\ [][NextSwrLong]_vars
  /\ \A t \in Threads : WF_vars(SStep(t))
  /\ \A i \in BgIds : WF_vars(BgStep(i))

\* Both functions of cache_ttl.py are called for one key by the threads of one
\* process.
NextBoth ==
  \/ \E t \in Threads : TCall(t, AnyKey)
  \/ \E t \in Threads : Reserved < MaxSwrFetches /\ SCall(t, AnyKey)
  \/ \E t \in Threads : TStep(t)
  \/ \E t \in Threads : SStep(t)
  \/ \E i \in BgIds : BgStep(i)
  \/ TTick

SpecBoth == InitCacheTtl /\ [][NextBoth]_vars

\* the fetch_fn invocations in flight for key k: by callers of cached_fetch, by
\* callers of stale_while_revalidate, by background threads
InFlightFetch(k)  == {t \in Threads : tpc[t] = "fetching" /\ tkey[t] = k}
InFlightSync(k)   == {t \in Threads : spc[t] = "fetching" /\ skey[t] = k}
InFlightBg(k)     == {i \in BgIds : bg[i].st = "fetching" /\ bg[i].key = k}
InFlight(k) ==
  Cardinality(InFlightFetch(k)) + Cardinality(InFlightSync(k)) + Cardinality(InFlightBg(k))

\* ============================================================ rcache._k
\* _k(prefix, path, params) is called with the i-th dict
KBuild(i) ==
  /\ kout' = [kout EXCEPT ![i] = _k(kin.prefix, kin.path, kin.params[i])]
  /\ UNCHANGED <<now, rcVars, ttlVars, swrVars, frameVars, siteVars, lateVars, schedVars, storeVars, twinVars, kin>>

NextKey == \E i \in {1, 2} : KBuild(i)

InitKey ==
  /\ InitCaches /\ backend = "redis" /\ count0 = SoftCap
  /\ kin \in KInputs
  /\ kout = <<NoKey, NoKey>>
  /\ RestStore
  /\ RestFrame
  /\ RestSites
  /\ RestLate
  /\ RestTwin
  /\ RestSched

SpecKey == InitKey /\ [][NextKey]_vars

\* the dict as a mapping: its items without their order
Items(params) == {params[i] : i \in DOMAIN params}

\* ===================================================== app_scheduler.py
\* values of RUN_SCHEDULER in the process environment
EnvValues == {"unset", "true", "True", "TRUE", "false", "0"}
\* str.lower() on these values
Lower(v) ==
  CASE v = "True" -> "true"
    [] v = "TRUE" -> "true"
    [] OTHER      -> v
\* os.getenv(name, default)
Getenv(v, default) == IF v = "unset" THEN default ELSE v
\* os.getenv("RUN_SCHEDULER", "false").lower() != "true" is false
Enabled == Lower(Getenv(runsched, "false")) = "true"

\* exceptions of start_scheduler (add_job, start)
StartErrors == {"SchedulerError"}
\* the BackgroundScheduler object the n-th invocation of start_scheduler makes
SchedulerObj(n) == <<"BackgroundScheduler", n>>

MReturn(v) ==
  /\ mpc' = "done"
  /\ mret' = [kind |-> "returned", val |-> v]

\* maybe_start_scheduler() is called
MCall ==
  /\ mpc \in {"idle", "done"}
  /\ ncalls < MaxCalls
  /\ ncalls' = ncalls + 1
  /\ mpc' = "test"
  /\ mret' = NoRet
  /\ UNCHANGED <<now, rcVars, ttlVars, swrVars, frameVars, siteVars, lateVars, keyVars, storeVars, twinVars,
                 scheduler, runsched, nstarts>>

\* variant: the stored scheduler is not looked at
MTest_unchecked ==
  /\ mpc = "test"
  /\ mpc' = "env"
  /\ UNCHANGED <<now, rcVars, ttlVars, swrVars, frameVars, siteVars, lateVars, keyVars, storeVars, twinVars,
                 scheduler, runsched, mret, nstarts, ncalls>>

\* if _scheduler is not None: return _scheduler
MTest ==
  /\ mpc = "test"
  /\ IF scheduler # "None"
     THEN MReturn(scheduler)
     ELSE mpc' = "env" /\ UNCHANGED mret
  /\ UNCHANGED <<now, rcVars, ttlVars, swrVars, frameVars, siteVars, lateVars, keyVars, storeVars, twinVars,
                 scheduler, runsched, nstarts, ncalls>>

\* if os.getenv("RUN_SCHEDULER", "false").lower() != "true": return None
MEnv ==
  /\ mpc = "env"
  /\ IF ~Enabled
     THEN MReturn("None")
     ELSE mpc' = "start" /\ UNCHANGED mret
  /\ UNCHANGED <<now, rcVars, ttlVars, swrVars, frameVars, siteVars, lateVars, keyVars, storeVars, twinVars,
                 scheduler, runsched, nstarts, ncalls>>

\* from warmers import start_scheduler: the import fails
MImportRaise ==
  /\ mpc = "start"
  /\ mpc' = "done"
  /\ mret' = [kind |-> "raised", val |-> "ImportError"]
  /\ UNCHANGED <<now, rcVars, ttlVars, swrVars, frameVars, siteVars, lateVars, keyVars, storeVars, twinVars,
                 scheduler, runsched, nstarts, ncalls>>

\* _scheduler = start_scheduler(); return _scheduler
MStartReturn ==
  /\ mpc = "start"
  /\ nstarts' = nstarts + 1
  /\ scheduler' = SchedulerObj(nstarts + 1)
  /\ MReturn(SchedulerObj(nstarts + 1))
  /\ UNCHANGED <<now, rcVars, ttlVars, swrVars, frameVars, siteVars, lateVars, keyVars, storeVars, twinVars,
                 runsched, ncalls>>

\* start_scheduler() raises: _scheduler is not assigned
MStartRaise(e) ==
  /\ mpc = "start"
  /\ nstarts' = nstarts + 1
  /\ mpc' = "done"
  /\ mret' = [kind |-> "raised", val |-> e]
  /\ UNCHANGED <<now, rcVars, ttlVars, swrVars, frameVars, siteVars, lateVars, keyVars, storeVars, twinVars,
                 scheduler, runsched, ncalls>>

NextSched ==
  \/ MCall \/ MTest \/ MEnv \/ MImportRaise \/ MStartReturn
  \/ \E e \in StartErrors : MStartRaise(e)

InitSched ==
  /\ InitCaches /\ backend = "redis" /\ count0 = SoftCap
  /\ kin = NoKin /\ kout = <<NoKey, NoKey>>
  /\ RestStore
  /\ RestFrame
  /\ RestSites
  /\ RestLate
  /\ RestTwin
  /\ scheduler = "None"
  /\ runsched \in EnvValues
  /\ mpc = "idle"
  /\ mret = NoRet
  /\ nstarts = 0
  /\ ncalls = 0

SpecSched == InitSched /\ [][NextSched]_vars

\* ================================================== the services' call sites
\* cached_fetch(s.prefix, s.path, s.params, fetch_fn) made by call site s at
\* time t on store st and the prefix's counters cn, nothing interleaving;
\* fetch_fn asks s.upstream and returns its body, or raises `out`
SiteFetch(b, st, cn, t, s, out) ==
  LET fresh == GetOn(b, st, SiteFresh(s), t) IN
  IF IsHit(fresh.data)
  THEN [store |-> fresh.store, counter |-> cn,
        ret |-> [site |-> s, kind |-> "fresh", val |-> fresh.data, invoked |-> FALSE]]
  ELSE IF ~budget_ok(CountOn(b, cn, _day(t), t))
       THEN LET stale == GetOn(b, fresh.store, SiteStale(s), t) IN
            [store |-> stale.store, counter |-> cn,
             ret |-> IF IsHit(stale.data)
                     THEN [site |-> s, kind |-> "stale", val |-> stale.data, invoked |-> FALSE]
                     ELSE [site |-> s, kind |-> "raised", val |-> BudgetExhausted,
                           invoked |-> FALSE]]
       ELSE IF out # "ok"
            THEN [store |-> fresh.store, counter |-> cn,
                  ret |-> [site |-> s, kind |-> "raised", val |-> out, invoked |-> TRUE]]
            ELSE LET body == Response(s.upstream) IN
                 [store |-> SetOn(b, SetOn(b, fresh.store, SiteFresh(s), Ttl, body, t),
                                  SiteStale(s), StaleTtl, body, t),
                  counter |-> CountCallOn(b, cn, t),
                  ret |-> [site |-> s, kind |-> "fetched", val |-> body, invoked |-> TRUE]]

\* a service function is called
SiteCall(s, out) ==
  /\ LET r == SiteFetch(backend, xstore, xcount[s.prefix], now, s, out) IN
       /\ xstore' = r.store
       /\ xcount' = [xcount EXCEPT ![s.prefix] = r.counter]
       /\ xret' = r.ret
  /\ UNCHANGED <<now, rcVars, ttlVars, swrVars, keyVars, storeVars, twinVars, schedVars, frameVars, lateVars>>

\* time passes; Redis drops what has run out
SiteTick ==
  /\ now < MaxTime
  /\ now' = now + 1
  /\ xstore' = IF backend = "redis"
               THEN [k \in SiteKeys |->
                       IF xstore[k].present /\ xstore[k].exp <= now + 1 THEN Absent ELSE xstore[k]]
               ELSE xstore
  /\ xcount' = IF backend = "redis"
               THEN [p \in SitePrefixes |-> [d \in Days |->
                       IF xcount[p][d].present /\ xcount[p][d].exp <= now + 1
                       THEN NoCount ELSE xcount[p][d]]]
               ELSE xcount
  /\ UNCHANGED <<rcVars, ttlVars, swrVars, keyVars, storeVars, twinVars, schedVars, frameVars, lateVars, xret>>

NextSites ==
  \/ \E s \in Sites : \E out \in {"ok"} \cup Errors : SiteCall(s, out)
  \/ SiteTick

\* every provider has count0 calls of the day counted already
InitSites ==
  /\ InitCaches
  /\ kin = NoKin /\ kout = <<NoKey, NoKey>>
  /\ RestStore
  /\ RestFrame
  /\ RestTwin
  /\ RestSched
  /\ RestLate
  /\ xstore = [k \in SiteKeys |-> Absent]
  /\ xcount = [p \in SitePrefixes |-> [d \in Days |->
       IF d = 0 /\ count0 > 0
       THEN [present |-> TRUE, n |-> count0,
             exp |-> IF backend = "redis" THEN CountKeep ELSE NoExpiry]
       ELSE NoCount]]
  /\ xret = NoSiteRet

SpecSites == InitSites /\ [][NextSites]_vars

\* ================================================= services/mlb.py retries
\* _apisports_get / _stats_get: cached_fetch(prefix, path, params, call, ...)
\* with call = lambda: _retrying_call(fn, MLB_RETRIES + 1)

\* MLB_RETRIES is any integer of the environment
TriesValues == 0..MaxTries

\* variant: the loop runs `tries` times as given
NTries_asgiven == rtries

\* tries = max(1, tries)
NTries == IF rtries > 1 THEN rtries ELSE 1

\* data = fetch_fn(): _retrying_call is entered; last = None
RetryBegin(t) ==
  /\ pc[t] = "fetch"
  /\ pc' = [pc EXCEPT ![t] = "fetching"]
  /\ started' = [started EXCEPT ![_day(now)] = @ + 1]
  /\ attempts' = [attempts EXCEPT ![t] = 0]
  /\ rlast' = [rlast EXCEPT ![t] = "None"]
  /\ UNCHANGED <<backend, now, store, counter, req, data, cur, ret, upstream, count0, succeeded, fetched>>
  /\ UNCHANGED <<ttlVars, swrVars, earlyVars, throttleVars, nameVars, rtries>>

\* for _ in range(tries): return fn(), fn returning v
RetryReturn(t, v) ==
  /\ pc[t] = "fetching"
  /\ attempts[t] < NTries
  /\ attempts' = [attempts EXCEPT ![t] = @ + 1]
  /\ data' = [data EXCEPT ![t] = v]
  /\ pc' = [pc EXCEPT ![t] = "set_fresh"]
  /\ succeeded' = [succeeded EXCEPT ![_day(now)] = @ + 1]
  /\ fetched' = [fetched EXCEPT ![req[t]] = @ \cup {v}]
  /\ upstream' = [upstream EXCEPT ![t] = [kind |-> "returned", val |-> v]]
  /\ UNCHANGED <<backend, now, store, counter, req, cur, ret, count0, started>>
  /\ UNCHANGED <<ttlVars, swrVars, earlyVars, throttleVars, nameVars, rtries, rlast>>

\* fn raises e: except Exception as e: last = e
RetryFail(t, e) ==
  /\ pc[t] = "fetching"
  /\ attempts[t] < NTries
  /\ attempts' = [attempts EXCEPT ![t] = @ + 1]
  /\ rlast' = [rlast EXCEPT ![t] = e]
  /\ UNCHANGED <<now, rcVars, ttlVars, swrVars, earlyVars, throttleVars, nameVars, rtries>>

\* the loop is over: if last: raise last; otherwise the function ends and
\* returns None
RetryExhausted(t) ==
  /\ pc[t] = "fetching"
  /\ attempts[t] >= NTries
  /\ IF rlast[t] # "None" THEN FetchRaise(t, rlast[t]) ELSE FetchReturn(t, "None")

RetryStep(t) ==
  \/ GetFresh(t) \/ DelFresh(t) \/ Budget(t) \/ GetStale(t) \/ DelStale(t)
  \/ (TotalStarted < MaxFetches /\ RetryBegin(t))
  \/ RetryReturn(t, RacePayload)
  \/ \E e \in Errors : RetryFail(t, e)
  \/ RetryExhausted(t)
  \/ SetFresh(t) \/ SetStale(t) \/ CountCall(t) \/ CountWrite(t)

NextRetry ==
  \/ \E t \in Threads : \E q \in SharedRequests : Call(t, q)
  \/ \E t \in Threads : RetryStep(t)
  \/ Tick

InitRetry ==
  /\ InitCaches
  /\ kin = NoKin /\ kout = <<NoKey, NoKey>>
  /\ RestStore
  /\ RestFrame
  /\ RestSites
  /\ RestTwin
  /\ RestSched
  /\ RestThrottle
  /\ RestNames
  /\ rtries \in TriesValues
  /\ attempts = [t \in Threads |-> 0]
  /\ rlast = [t \in Threads |-> "None"]

SpecRetry == InitRetry /\ [][NextRetry]_vars

\* ============================================ services/mlb_free.py throttle
\* _throttled_get(path, params=None, tries=4), one caller; the clock counts
\* seconds, MinInterval is MLB_MIN_INTERVAL_S

GetTries == 0..MaxGetTries
\* the clock runs long enough for the throttle sleep and every back-off sleep
MaxMono == MinInterval + (MaxGetTries * (MaxGetTries + 1)) \div 2 + 1
Statuses == {200, 404, 429, 500}
Bodies == {"{\"id\": 1}", "{}", "<html>"}
HttpResponses == [status : Statuses, body : Bodies]
RequestErrors == {"ConnectionError"}

\* variant: only server errors raise
RaisesForStatus_server(st) == st >= 500 /\ st < 600

\* resp.raise_for_status() raises HTTPError for 4xx and 5xx
RaisesForStatus(st) == st >= 400 /\ st < 600

\* resp.json(): the parsed body, or the decoder's exception
RespJson(r) ==
  IF r.body = "<html>" THEN [kind |-> "raised", val |-> "JSONDecodeError"]
  ELSE [kind |-> "returned", val |-> JsonLoads(r.body)]

\* a caller enters _throttled_get(path, params, n)
GetCall(n) ==
  /\ hpc = "idle"
  /\ hpc' = "start"
  /\ htries' = n
  /\ hi' = 0
  /\ hreq' = 0
  /\ hresp' = <<>>
  /\ hret' = NoRet
  /\ UNCHANGED <<hlast, hmono>>
  /\ UNCHANGED <<now, rcVars, ttlVars, swrVars, earlyVars, retryVars, nameVars>>

\* now = time.monotonic(); dt = now - _LAST_CALL_AT;
\* if dt < _MIN_INTERVAL: time.sleep(_MIN_INTERVAL - dt)
GetThrottle ==
  /\ hpc = "start"
  /\ LET dt == hmono - hlast
     IN  IF dt < MinInterval
         THEN /\ hmono + (MinInterval - dt) <= MaxMono
              /\ hmono' = hmono + (MinInterval - dt)
         ELSE hmono' = hmono
  /\ hpc' = "loop"
  /\ UNCHANGED <<htries, hi, hreq, hresp, hlast, hret>>
  /\ UNCHANGED <<now, rcVars, ttlVars, swrVars, earlyVars, retryVars, nameVars>>

\* requests.get(...) raises: the exception leaves the function
GetError(e) ==
  /\ hpc = "loop"
  /\ hi < htries
  /\ hreq' = hreq + 1
  /\ hret' = [kind |-> "raised", val |-> e]
  /\ hpc' = "idle"
  /\ UNCHANGED <<htries, hi, hresp, hlast, hmono>>
  /\ UNCHANGED <<now, rcVars, ttlVars, swrVars, earlyVars, retryVars, nameVars>>

\* one pass of the loop: resp = requests.get(...) answers r
GetResponse(r) ==
  /\ hpc = "loop"
  /\ hi < htries
  /\ hreq' = hreq + 1
  /\ hresp' = Append(hresp, r)
  /\ IF r.status = 429
     THEN \* time.sleep(1.0 + i * 1.0); continue
          /\ hmono + 1 + hi <= MaxMono
          /\ hmono' = hmono + 1 + hi
          /\ hi' = hi + 1
          /\ UNCHANGED <<hpc, hlast, hret>>
     ELSE IF RaisesForStatus(r.status)
     THEN /\ hret' = [kind |-> "raised", val |-> "HTTPError"]
          /\ hpc' = "idle"
          /\ UNCHANGED <<hi, hlast, hmono>>
     ELSE \* _LAST_CALL_AT = time.monotonic(); return resp.json()
          /\ hlast' = hmono
          /\ hret' = RespJson(r)
          /\ hpc' = "idle"
          /\ UNCHANGED <<hi, hmono>>
  /\ UNCHANGED htries
  /\ UNCHANGED <<now, rcVars, ttlVars, swrVars, earlyVars, retryVars, nameVars>>

\* the loop is over: resp.raise_for_status() on the last response; with no
\* pass made, resp is unbound
GetAfter ==
  /\ hpc = "loop"
  /\ hi >= htries
  /\ hret' = IF hresp = <<>>
             THEN [kind |-> "raised", val |-> "UnboundLocalError"]
             ELSE IF RaisesForStatus(hresp[Len(hresp)].status)
             THEN [kind |-> "raised", val |-> "HTTPError"]
             ELSE [kind |-> "returned", val |-> "None"]
  /\ hpc' = "idle"
  /\ UNCHANGED <<htries, hi, hreq, hresp, hlast, hmono>>
  /\ UNCHANGED <<now, rcVars, ttlVars, swrVars, earlyVars, retryVars, nameVars>>

\* the monotonic clock advances
GetTick ==
  /\ hmono < MaxMono
  /\ hmono' = hmono + 1
  /\ UNCHANGED <<hpc, htries, hi, hreq, hresp, hlast, hret>>
  /\ UNCHANGED <<now, rcVars, ttlVars, swrVars, earlyVars, retryVars, nameVars>>

NextThrottle ==
  \/ \E n \in GetTries : GetCall(n)
  \/ GetThrottle
  \/ \E e \in RequestErrors : GetError(e)
  \/ \E r \in HttpResponses : GetResponse(r)
  \/ GetAfter
  \/ GetTick

InitThrottle ==
  /\ InitCaches /\ backend = "redis" /\ count0 = SoftCap
  /\ kin = NoKin /\ kout = <<NoKey, NoKey>>
  /\ RestStore
  /\ RestFrame
  /\ RestSites
  /\ RestTwin
  /\ RestSched
  /\ RestRetry
  /\ RestNames
  /\ hpc = "idle"
  /\ htries = 0
  /\ hi = 0
  /\ hreq = 0
  /\ hresp = <<>>
  /\ hlast = 0
  /\ hmono \in 0..MinInterval
  /\ hret = NoRet

SpecThrottle == InitThrottle /\ [][NextThrottle]_vars

\* ============================================== services/mlb.py name memo
\* resolve_player_id(name) and the module global _NAME_TO_ID, called by the
\* request threads of the web application

\* _NAME_TO_ID as the module import leaves it
HardCoded ==
  [k \in {"shohei ohtani", "aaron judge", "juan soto", "mookie betts"} |->
     CASE k = "shohei ohtani" -> "660271"
       [] k = "aaron judge"   -> "592450"
       [] k = "juan soto"     -> "665742"
       [] k = "mookie betts"  -> "605141"]

\* the names the callers pass
Names == {"", "  ", "Aaron Judge", "Pete Alonso", " pete alonso "}

\* name.lower().strip()
LowerStrip(n) ==
  CASE n = ""              -> ""
    [] n = "  "            -> ""
    [] n = "Aaron Judge"   -> "aaron judge"
    [] n = "Pete Alonso"   -> "pete alonso"
    [] n = " pete alonso " -> "pete alonso"

\* the ids a search answers with: API-SPORTS ids and StatsAPI ids are
\* different numbers, and a StatsAPI id is whatever the JSON carried
FoundIds == {"17", "624413", "'n/a'"}

\* search_player(name): [] for a blank name, otherwise a list of {id, name},
\* possibly empty, from API-SPORTS or from the StatsAPI fallback
SearchResults(n) ==
  IF LowerStrip(n) = "" THEN {<<>>}
  ELSE {<<>>} \cup {<<[id |-> i]>> : i \in FoundIds}
         \cup {<<[id |-> "17"], [id |-> "624413"]>>}

\* int(x): the integer, or ValueError
IntOf(x) ==
  IF x = "'n/a'" THEN [kind |-> "raised", val |-> "ValueError"]
  ELSE [kind |-> "returned", val |-> x]

\* key of _NAME_TO_ID a thread's call works on
NameKey(t) == LowerStrip(nname[t])

\* a thread calls resolve_player_id(n)
ResolveCall(t, n) ==
  /\ npc[t] = "idle"
  /\ npc' = [npc EXCEPT ![t] = "check"]
  /\ nname' = [nname EXCEPT ![t] = n]
  /\ nres' = [nres EXCEPT ![t] = <<>>]
  /\ nret' = [nret EXCEPT ![t] = NoRet]
  /\ nsearched' = [nsearched EXCEPT ![t] = FALSE]
  /\ UNCHANGED memo
  /\ UNCHANGED <<now, rcVars, ttlVars, swrVars, earlyVars, retryVars, throttleVars>>

\* if not name: return None; key = name.lower().strip();
\* if key in _NAME_TO_ID: return _NAME_TO_ID[key]
ResolveCheck(t) ==
  /\ npc[t] = "check"
  /\ IF nname[t] = ""
     THEN /\ nret' = [nret EXCEPT ![t] = [kind |-> "returned", val |-> "None"]]
          /\ npc' = [npc EXCEPT ![t] = "idle"]
     ELSE IF NameKey(t) \in DOMAIN memo
     THEN /\ nret' = [nret EXCEPT ![t] = [kind |-> "returned", val |-> memo[NameKey(t)]]]
          /\ npc' = [npc EXCEPT ![t] = "idle"]
     ELSE /\ npc' = [npc EXCEPT ![t] = "search"]
          /\ UNCHANGED nret
  /\ UNCHANGED <<memo, nname, nres, nsearched>>
  /\ UNCHANGED <<now, rcVars, ttlVars, swrVars, earlyVars, retryVars, throttleVars>>

\* res = search_player(name) answers res; an empty list falls through to
\* return None
ResolveSearch(t, res) ==
  /\ npc[t] = "search"
  /\ nsearched' = [nsearched EXCEPT ![t] = TRUE]
  /\ nres' = [nres EXCEPT ![t] = res]
  /\ IF res # <<>>
     THEN /\ npc' = [npc EXCEPT ![t] = "store"]
          /\ UNCHANGED nret
     ELSE /\ nret' = [nret EXCEPT ![t] = [kind |-> "returned", val |-> "None"]]
          /\ npc' = [npc EXCEPT ![t] = "idle"]
  /\ UNCHANGED <<memo, nname>>
  /\ UNCHANGED <<now, rcVars, ttlVars, swrVars, earlyVars, retryVars, throttleVars>>

\* search_player raises: except Exception: pass; return None
ResolveSearchRaise(t) ==
  /\ npc[t] = "search"
  /\ nsearched' = [nsearched EXCEPT ![t] = TRUE]
  /\ nret' = [nret EXCEPT ![t] = [kind |-> "returned", val |-> "None"]]
  /\ npc' = [npc EXCEPT ![t] = "idle"]
  /\ UNCHANGED <<memo, nname, nres>>
  /\ UNCHANGED <<now, rcVars, ttlVars, swrVars, earlyVars, retryVars, throttleVars>>

\* pid = int(res[0]["id"]); _NAME_TO_ID[key] = pid; return pid
ResolveStore(t) ==
  /\ npc[t] = "store"
  /\ LET pid == IntOf(nres[t][1].id)
     IN  IF pid.kind = "raised"
         THEN /\ nret' = [nret EXCEPT ![t] = [kind |-> "returned", val |-> "None"]]
              /\ UNCHANGED memo
         ELSE /\ memo' = [k \in DOMAIN memo \cup {NameKey(t)} |->
                            IF k = NameKey(t) THEN pid.val ELSE memo[k]]
              /\ nret' = [nret EXCEPT ![t] = pid]
  /\ npc' = [npc EXCEPT ![t] = "idle"]
  /\ UNCHANGED <<nname, nres, nsearched>>
  /\ UNCHANGED <<now, rcVars, ttlVars, swrVars, earlyVars, retryVars, throttleVars>>

NextNames ==
  \/ \E t \in Threads : \E n \in Names : ResolveCall(t, n)
  \/ \E t \in Threads : ResolveCheck(t)
  \/ \E t \in Threads : \E res \in SearchResults(nname[t]) : ResolveSearch(t, res)
  \/ \E t \in Threads : ResolveSearchRaise(t)
  \/ \E t \in Threads : ResolveStore(t)

InitNames ==
  /\ InitCaches /\ backend = "redis" /\ count0 = SoftCap
  /\ kin = NoKin /\ kout = <<NoKey, NoKey>>
  /\ RestStore
  /\ RestFrame
  /\ RestSites
  /\ RestTwin
  /\ RestSched
  /\ RestRetry
  /\ RestThrottle
  /\ memo = HardCoded
  /\ npc = [t \in Threads |-> "idle"]
  /\ nname = [t \in Threads |-> ""]
  /\ nres = [t \in Threads |-> <<>>]
  /\ nret = [t \in Threads |-> NoRet]
  /\ nsearched = [t \in Threads |-> FALSE]

SpecNames == InitNames /\ [][NextNames]_vars

\* ================================================================ claims
FreshOf(q) == store[fresh_key(q)]
StaleOf(q) == store[stale_key(q)]
Today      == _day(now)
\* the calls of day d: those made before the threads started, and theirs
Invocations(d) == started[d] + (IF d = 0 THEN count0 ELSE 0)
Successes(d)   == succeeded[d] + (IF d = 0 THEN count0 ELSE 0)
\* thread t takes a step of its call
Moves(t) == pc'[t] # pc[t]

\* C1: concurrent calls of rcache.cached_fetch for one uncached request make
\* one fetch_fn invocation in total: two threads are never inside fetch_fn
\* for the same request at the same time.
C1_SingleFlight ==
  \A t1, t2 \in Threads :
    (t1 # t2 /\ pc[t1] = "fetching" /\ pc[t2] = "fetching") => req[t1] # req[t2]

\* C2: a call that reads a present, unexpired fresh entry returns exactly the
\* stored value at that step, without invoking fetch_fn.
C2_HitSkipsFetch ==
  [][\A t \in Threads :
       (pc[t] = "get_fresh" /\ Moves(t) /\ Unexpired(FreshOf(req[t])))
         => /\ pc'[t] = "done"
            /\ ret'[t] = [kind |-> "fresh", val |-> Held(FreshOf(req[t]))]
            /\ upstream'[t] = NoRet]_vars

\* C2 restricted to stored values other than JSON null
C2_HitSkipsFetchNonNull ==
  [][\A t \in Threads :
       (pc[t] = "get_fresh" /\ Moves(t) /\ Unexpired(FreshOf(req[t]))
          /\ Held(FreshOf(req[t])) # "None")
         => /\ pc'[t] = "done"
            /\ ret'[t] = [kind |-> "fresh", val |-> Held(FreshOf(req[t]))]
            /\ upstream'[t] = NoRet]_vars

C2_Witness ==
  \E t \in Threads :
    /\ pc[t] = "done"
    /\ ret[t].kind = "fresh"
    /\ upstream[t] = NoRet
    /\ Unexpired(FreshOf(req[t]))
    /\ ret[t].val = Held(FreshOf(req[t]))

\* C3: a call that finds no fresh entry, a counter for today not below
\* soft_cap and no stale entry fails with the budget-exhausted error, and
\* never reaches fetch_fn.
C3_BudgetGating ==
  [][\A t \in Threads :
       /\ (pc[t] = "get_fresh" /\ Moves(t) /\ ~FreshOf(req[t]).present)
            => pc'[t] = "budget"
       /\ (pc[t] = "budget" /\ Moves(t) /\ CountOf(Today) >= SoftCap)
            => pc'[t] = "get_stale"
       /\ (pc[t] = "get_stale" /\ Moves(t) /\ ~StaleOf(req[t]).present)
            => /\ pc'[t] = "done"
               /\ ret'[t] = [kind |-> "raised", val |-> BudgetExhausted]
               /\ upstream'[t] = NoRet
               /\ started' = started]_vars

C3_Witness ==
  \E t \in Threads :
    /\ pc[t] = "done"
    /\ ret[t] = [kind |-> "raised", val |-> BudgetExhausted]
    /\ upstream[t] = NoRet
    /\ ~FreshOf(req[t]).present /\ ~StaleOf(req[t]).present
    /\ CountOf(Today) >= SoftCap

\* C4: a call over budget that reads a present, unexpired stale entry returns
\* exactly the stale value at that step, without invoking fetch_fn.
C4_StaleFallback ==
  [][\A t \in Threads :
       (pc[t] = "get_stale" /\ Moves(t) /\ Unexpired(StaleOf(req[t])))
         => /\ pc'[t] = "done"
            /\ ret'[t] = [kind |-> "stale", val |-> Held(StaleOf(req[t]))]
            /\ upstream'[t] = NoRet]_vars

\* C4 restricted to stored values other than JSON null
C4_StaleFallbackNonNull ==
  [][\A t \in Threads :
       (pc[t] = "get_stale" /\ Moves(t) /\ Unexpired(StaleOf(req[t]))
          /\ Held(StaleOf(req[t])) # "None")
         => /\ pc'[t] = "done"
            /\ ret'[t] = [kind |-> "stale", val |-> Held(StaleOf(req[t]))]
            /\ upstream'[t] = NoRet]_vars

C4_Witness ==
  \E t \in Threads :
    /\ pc[t] = "done"
    /\ ret[t].kind = "stale"
    /\ upstream[t] = NoRet
    /\ ~FreshOf(req[t]).present
    /\ CountOf(Today) >= SoftCap
    /\ Unexpired(StaleOf(req[t]))
    /\ ret[t].val = Held(StaleOf(req[t]))

\* C5 (as claimed): on every day the fetch_fn invocations, successful or
\* not, number at most soft_cap.
C5_InvocationsBounded == \A d \in Days : Invocations(d) <= SoftCap

\* C5 (amended): when calls do not overlap, the fetch_fn invocations that
\* return a value number at most soft_cap on every day.
C5_SuccessesBounded == \A d \in Days : Successes(d) <= SoftCap

C5_Witness ==
  /\ Successes(Today) = SoftCap
  /\ succeeded[Today] >= 1
  /\ pc[MainThread] = "done"
  /\ ret[MainThread].kind = "stale"

\* C6 (as claimed): once today's counter has reached soft_cap, no thread
\* begins a fetch_fn invocation.
C6_NoFetchAfterCap ==
  [][\A t \in Threads :
       CountOf(Today) >= SoftCap => ~(pc[t] = "fetch" /\ pc'[t] = "fetching")]_vars

\* C6 (amended): a call begins fetch_fn only after its own budget check has
\* read a counter below soft_cap; a call whose budget check reads a counter
\* at or above soft_cap never invokes fetch_fn.
C6_GateAtCheck ==
  [][\A t \in Threads :
       /\ (pc[t] = "budget" /\ Moves(t))
            => (pc'[t] = "fetch" <=> CountOf(Today) < SoftCap)
       /\ (pc[t] = "budget" /\ Moves(t) /\ CountOf(Today) >= SoftCap)
            => pc'[t] = "get_stale"
       /\ (pc'[t] = "fetch" /\ Moves(t)) => pc[t] = "budget"
       /\ (pc'[t] = "fetching" /\ Moves(t)) => pc[t] = "fetch"
       /\ (pc[t] \in {"get_stale", "del_stale"} /\ Moves(t))
            => pc'[t] \in {"del_stale", "done"}]_vars

C6_Witness ==
  \E t1, t2 \in Threads :
    /\ pc[t1] = "fetching"
    /\ CountOf(Today) >= SoftCap
    /\ pc[t2] = "done" /\ ret[t2].kind = "stale" /\ upstream[t2] = NoRet

\* C7 (as claimed): on the miss path with fetch_fn returning v, the call
\* stores v under the fresh key for ttl and under the stale key for
\* stale_ttl, adds exactly 1 to the counter of the day, and returns v.
C7_MissPath ==
  [][\A t \in Threads :
       /\ (pc[t] = "set_fresh" /\ Moves(t))
            => LET e == store'[fresh_key(req[t])] IN
               /\ upstream[t] = [kind |-> "returned", val |-> data[t]]
               /\ e.present /\ e.exp = now + Ttl
               /\ (IF backend = "redis" THEN JsonLoads(e.val) ELSE e.val) = data[t]
       /\ (pc[t] = "set_stale" /\ Moves(t))
            => LET e == store'[stale_key(req[t])] IN
               /\ e.present /\ e.exp = now + StaleTtl
               /\ (IF backend = "redis" THEN JsonLoads(e.val) ELSE e.val) = data[t]
       /\ (pc[t] = "count" /\ Moves(t) /\ backend = "redis")
            => /\ counter'[Today].n = CountOf(Today) + 1
               /\ \A d \in Days \ {Today} : counter'[d] = counter[d]
       /\ (pc[t] = "count" /\ Moves(t) /\ backend = "mem")
            => /\ cur'[t].day = Today
               /\ counter' = counter
       /\ (pc[t] = "count_write" /\ Moves(t))
            => /\ counter'[cur[t].day].n = CountOf(cur[t].day) + 1
               /\ \A d \in Days \ {cur[t].day} : counter'[d] = counter[d]
       /\ (pc[t] \in {"count", "count_write"} /\ pc'[t] = "done")
            => ret'[t] = [kind |-> "fetched", val |-> upstream[t].val]]_vars

\* C7 (what every call does): v is stored under both keys with their TTLs and
\* returned; Redis adds exactly 1 to the counter, the in-process dict stores
\* the count the call read earlier plus 1.
C7_MissPathPerCall ==
  [][\A t \in Threads :
       /\ (pc[t] = "set_fresh" /\ Moves(t))
            => LET e == store'[fresh_key(req[t])] IN
               /\ upstream[t] = [kind |-> "returned", val |-> data[t]]
               /\ e.present /\ e.exp = now + Ttl
               /\ (IF backend = "redis" THEN JsonLoads(e.val) ELSE e.val) = data[t]
       /\ (pc[t] = "set_stale" /\ Moves(t))
            => LET e == store'[stale_key(req[t])] IN
               /\ e.present /\ e.exp = now + StaleTtl
               /\ (IF backend = "redis" THEN JsonLoads(e.val) ELSE e.val) = data[t]
       /\ (pc[t] = "count" /\ Moves(t) /\ backend = "redis")
            => /\ counter'[Today].n = CountOf(Today) + 1
               /\ \A d \in Days \ {Today} : counter'[d] = counter[d]
       /\ (pc[t] = "count_write" /\ Moves(t))
            => /\ counter'[cur[t].day].n = cur[t].n + 1
               /\ \A d \in Days \ {cur[t].day} : counter'[d] = counter[d]
       /\ (pc[t] \in {"count", "count_write"} /\ pc'[t] = "done")
            => ret'[t] = [kind |-> "fetched", val |-> upstream[t].val]]_vars

C7_Witness ==
  \E t \in Threads :
    /\ pc[t] = "done"
    /\ ret[t].kind = "fetched"
    /\ Unexpired(FreshOf(req[t])) /\ Held(FreshOf(req[t])) = ret[t].val
    /\ Unexpired(StaleOf(req[t])) /\ Held(StaleOf(req[t])) = ret[t].val
    /\ CountOf(0) = count0 + 1

\* C8: when fetch_fn raises, the call raises that same exception, also when
\* an unexpired stale entry exists: the stale value is not returned.
C8_RaisePropagates ==
  \A t \in Threads :
    (pc[t] = "done" /\ upstream[t].kind = "raised")
       => ret[t] = [kind |-> "raised", val |-> upstream[t].val]

C8_Witness ==
  \E t \in Threads :
    /\ pc[t] = "done"
    /\ upstream[t].kind = "raised"
    /\ Unexpired(StaleOf(req[t]))
    /\ Held(StaleOf(req[t])) # "None"

\* C9: a value returned by a call is one that fetch_fn has returned for the
\* same request, earlier or in this call; without one the call fails.
C9_NoFabrication ==
  \A t \in Threads :
    pc[t] = "done"
      => \/ ret[t].kind = "raised"
         \/ /\ ret[t].kind \in {"fresh", "stale", "fetched"}
            /\ ret[t].val \in fetched[req[t]]

C9_Witness ==
  \E t \in Threads :
    /\ pc[t] = "done"
    /\ ret[t].kind = "stale"
    /\ upstream[t] = NoRet
    /\ ret[t].val \in fetched[req[t]]

\* C10: for any key, at most one thread is executing fetch_fn on behalf of
\* cache_ttl.cached_fetch at any instant.
C10_MutualExclusion ==
  \A t1, t2 \in Threads :
    (t1 # t2 /\ tpc[t1] = "fetching" /\ tpc[t2] = "fetching") => tkey[t1] # tkey[t2]

\* one thread is inside fetch_fn for a key while another waits for that key's lock
C10_Witness ==
  \E t1, t2 \in Threads :
    /\ t1 # t2
    /\ tkey[t1] = tkey[t2]
    /\ tpc[t1] = "fetching"
    /\ tpc[t2] = "acquire"
    /\ tlock[t2] = tlock[t1]

\* C11 (as claimed): a caller of cache_ttl.cached_fetch that arrived while
\* another caller's fetch_fn for its key was in flight, that fetch_fn having
\* returned and its entry being in the store, returns the stored entry once
\* it has the lock and does not invoke fetch_fn.
C11_WaitersRead ==
  [][\A t \in Threads :
       (tpc[t] = "get" /\ tpc'[t] # "get" /\ twait[t] = "returned" /\ tstore[tkey[t]].present)
         => /\ tpc'[t] = "release"
            /\ tret'[t] = [kind |-> "hit", val |-> JsonLoads(tstore[tkey[t]].val)]
            /\ tstarted' = tstarted]_vars

\* C11 for first callers whose fetch_fn returned something other than None
C11_WaitersReadNonNull ==
  [][\A t \in Threads :
       (tpc[t] = "get" /\ tpc'[t] # "get" /\ twait[t] = "returned" /\ tstore[tkey[t]].present
          /\ tstore[tkey[t]].val # JsonDumps("None"))
         => /\ tpc'[t] = "release"
            /\ tret'[t] = [kind |-> "hit", val |-> JsonLoads(tstore[tkey[t]].val)]
            /\ tstarted' = tstarted]_vars

\* a waiter has returned the entry the first caller stored
C11_Witness ==
  \E t \in Threads :
    /\ tpc[t] = "done"
    /\ twait[t] = "returned"
    /\ tret[t].kind = "hit"
    /\ tstore[tkey[t]].present
    /\ tret[t].val = JsonLoads(tstore[tkey[t]].val)

C13_OneLockPerKey ==
  [][/\ \A k \in TKeys : locks[k] # NoLock => locks'[k] = locks[k]
     /\ \A t \in Threads : tlock'[t] # NoLock => tlock'[t] = locks'[tkey'[t]]
     /\ \A t, u \in Threads :
          (tlock'[t] # NoLock /\ tlock'[u] # NoLock /\ tkey'[t] = tkey'[u])
            => tlock'[t] = tlock'[u]]_vars

\* two callers of one key have the same lock, one holds it, the other waits
C13_Witness ==
  \E t, u \in Threads :
    /\ t # u
    /\ tkey[t] = tkey[u]
    /\ tlock[t] # NoLock
    /\ tlock[t] = tlock[u]
    /\ tlock[t] = locks[tkey[t]]
    /\ held[tlock[t]] = t
    /\ tpc[t] = "get"
    /\ tpc[u] = "acquire"

\* the cached value a stale_while_revalidate call reads, and its age
CurOf(t) == cache_get(skey[t])
CurAge(t) == AgeOf(CurOf(t), snow[t])
\* thread t reads the cache in this step
Reads(t) == spc[t] = "get" /\ spc'[t] # "get"

\* C14: a stale_while_revalidate call that reads a cached value with
\* soft_ttl <= age <= hard_ttl returns that value in the same step, without an
\* upstream call of its own, and starts exactly one background thread for its
\* key; a background thread invokes fetch_fn once, as its first step.
C14_SoftStaleRead ==
  [][/\ \A t \in Threads :
          (Reads(t) /\ CurOf(t) # "None" /\ SoftTtl <= CurAge(t) /\ CurAge(t) <= HardTtl)
            => /\ spc'[t] = "done"
               /\ sret'[t] = [kind |-> "cached", val |-> CurOf(t)]
               /\ tstarted' = tstarted
               /\ tstore' = tstore
               /\ \E i \in BgIds \ Born :
                    /\ bg'[i] = [st |-> "start", key |-> skey[t], data |-> "None", at |-> 0]
                    /\ \A j \in BgIds \ {i} : bg'[j] = bg[j]
     /\ \A i \in BgIds :
          /\ (bg[i].st = "start" /\ bg'[i].st # "start")
               => bg'[i].st = "fetching" /\ tstarted' = tstarted + 1
          /\ (bg'[i].st = "fetching" /\ bg[i].st # "fetching") => bg[i].st = "start"
          /\ (bg'[i].st = "start" /\ bg[i].st # "start") => bg[i].st = "unborn"]_vars

\* a soft-stale read has returned the cached value and its background thread
\* is inside fetch_fn
C14_Witness ==
  \E t \in Threads : \E i \in BgIds :
    /\ spc[t] = "done"
    /\ sret[t].kind = "cached"
    /\ IsTagged(sret[t].val)
    /\ AgeOf(sret[t].val, snow[t]) >= SoftTtl
    /\ bg[i].st = "fetching"
    /\ bg[i].key = skey[t]
    /\ Cardinality(Born) = 1

\* C15 (what the code does): a call that reads no cached value, or one with
\* age > hard_ttl, goes on to invoke fetch_fn in the calling thread and starts
\* no background thread; when the fetch and the store write succeed, the
\* result is stored under the key for hard_ttl and returned.
C15_SyncFetch ==
  [][\A t \in Threads :
       /\ (Reads(t) /\ (CurOf(t) = "None" \/ CurAge(t) > HardTtl))
            => /\ spc'[t] = "fetch"
               /\ bg' = bg
       /\ (spc[t] = "fetch" /\ spc'[t] # "fetch")
            => spc'[t] = "fetching" /\ tstarted' = tstarted + 1
       /\ (spc[t] = "set" /\ spc'[t] # "set" /\ sret'[t].kind # "raised")
            => /\ tstore'[skey[t]] = Entry(JsonDumps(sdata[t]), now + HardTtl)
               /\ sret'[t] = [kind |-> "fetched", val |-> sdata[t]]]_vars

\* C15 (as claimed): moreover the entry stored by the synchronous path carries
\* a meta.cached_at equal to the current time (a time within the call).
C15_SyncFetchStamped ==
  [][\A t \in Threads :
       (spc[t] = "set" /\ spc'[t] # "set" /\ sret'[t].kind # "raised")
         => LET stored == JsonLoads(tstore'[skey[t]].val) IN
            /\ tstore'[skey[t]].present
            /\ IsTagged(stored)
            /\ UnixTime(snow[t]) <= CachedAt(stored)
            /\ CachedAt(stored) <= UnixTime(now)]_vars

\* a synchronous fetch has stored and returned its result
C15_Witness ==
  \E t \in Threads :
    /\ spc[t] = "done"
    /\ sret[t].kind = "fetched"
    /\ sret[t].val # "None"
    /\ tstore[skey[t]] = Entry(JsonDumps(sret[t].val), now + HardTtl)

\* C16: a stale_while_revalidate call that reads a cached value with
\* age < soft_ttl returns it in the same step; no upstream call is made, no
\* background thread is started and the store is left as it is.
C16_FreshRead ==
  [][\A t \in Threads :
       (Reads(t) /\ CurOf(t) # "None" /\ CurAge(t) < SoftTtl)
         => /\ spc'[t] = "done"
            /\ sret'[t] = [kind |-> "cached", val |-> CurOf(t)]
            /\ bg' = bg
            /\ tstarted' = tstarted
            /\ tstore' = tstore]_vars

\* a fresh value has been served and no background thread exists
C16_Witness ==
  \E t \in Threads :
    /\ spc[t] = "done"
    /\ sret[t].kind = "cached"
    /\ IsTagged(sret[t].val)
    /\ AgeOf(sret[t].val, snow[t]) < SoftTtl
    /\ Born = {}
    /\ tstore[skey[t]].present

\* C17: when the fetch_fn or the store write of a background revalidation
\* raises, the thread ends there: no caller's outcome changes (the caller that
\* started it keeps the cached value it was given) and the store keeps what
\* it held.
C17_BackgroundFailureSwallowed ==
  [][\A i \in BgIds :
       (bg'[i].st = "failed" /\ bg[i].st # "failed")
         => /\ tstore' = tstore
            /\ sret' = sret /\ spc' = spc
            /\ tret' = tret /\ tpc' = tpc]_vars

\* a background revalidation has failed; its caller has the cached value,
\* which is still in the store
C17_Witness ==
  \E i \in BgIds : \E t \in Threads :
    /\ bg[i].st = "failed"
    /\ skey[t] = bg[i].key
    /\ spc[t] = "done"
    /\ sret[t].kind = "cached"
    /\ tstore[skey[t]].present
    /\ JsonLoads(tstore[skey[t]].val) = sret[t].val

\* C18: when fetch_fn raises in the calling thread (cached value absent or
\* older than hard_ttl), the call ends raising an exception of fetch_fn and
\* the store keeps what it held.
C18_SyncFailurePropagates ==
  [][\A t \in Threads :
       (spc[t] = "fetching" /\ spc'[t] = "done")
         => /\ sret'[t].kind = "raised"
            /\ sret'[t].val \in Errors
            /\ tstore' = tstore
            /\ bg' = bg]_vars

\* a call has raised fetch_fn's exception and its key is not in the store
C18_Witness ==
  \E t \in Threads :
    /\ spc[t] = "done"
    /\ sret[t].kind = "raised"
    /\ sret[t].val \in Errors
    /\ ~tstore[skey[t]].present

\* the entry background thread i stored is still the one in the store
StoredBy(i) ==
  /\ bg[i].st = "done"
  /\ tstore[bg[i].key] = Entry(JsonDumps(bg[i].data), bg[i].at + HardTtl)

\* C19 (as claimed): while the value w stored by a background revalidation is
\* in the store and less than soft_ttl has passed since it was stored, a
\* stale_while_revalidate call returns w without an upstream call.
C19_RefreshServed ==
  [][\A t \in Threads : \A i \in BgIds :
       (Reads(t) /\ StoredBy(i) /\ bg[i].key = skey[t]
          /\ snow[t] >= bg[i].at /\ snow[t] - bg[i].at < SoftTtl)
         => /\ spc'[t] = "done"
            /\ sret'[t] = [kind |-> "cached", val |-> bg[i].data]]_vars

\* C19 (what the code does): a background revalidation whose fetch_fn
\* returned w stores w unless the store write raises, and while w is in the
\* store a call that computes an age below soft_ttl from w's own
\* meta.cached_at returns w.
C19_RefreshTakesEffect ==
  /\ \A i \in BgIds :
       (bg[i].st = "set") ~> (bg[i].st = "failed" \/ StoredBy(i))
  /\ [][\A t \in Threads : \A i \in BgIds :
          (Reads(t) /\ StoredBy(i) /\ bg[i].key = skey[t] /\ IsTagged(bg[i].data)
             /\ AgeOf(bg[i].data, snow[t]) < SoftTtl)
            => /\ spc'[t] = "done"
               /\ sret'[t] = [kind |-> "cached", val |-> bg[i].data]]_vars

\* a call has returned the value a background revalidation stored
C19_Witness ==
  \E t \in Threads : \E i \in BgIds :
    /\ StoredBy(i)
    /\ bg[i].key = skey[t]
    /\ spc[t] = "done"
    /\ sret[t] = [kind |-> "cached", val |-> bg[i].data]
    /\ snow[t] >= bg[i].at

\* C20: for every key, at no instant are two fetch_fn invocations in flight
\* that cache_ttl.cached_fetch or stale_while_revalidate (synchronously or in
\* its background thread) started.
C20_OneUpstreamCall == \A k \in TKeys : InFlight(k) <= 1

\* two background revalidations of one key overlap
C20_Witness ==
  \E i, j \in BgIds :
    /\ i # j
    /\ bg[i].key = bg[j].key
    /\ bg[i].st = "fetching"
    /\ bg[j].st = "fetching"

\* C21: _k returns the same key whenever it is called again with the same
\* arguments, and two params dicts holding the same items in different
\* insertion orders get the same key.
C21_KeyDeterministic ==
  /\ []((kout[1] # NoKey /\ kout[2] # NoKey /\ Items(kin.params[1]) = Items(kin.params[2]))
          => kout[1] = kout[2])
  /\ [][\A i \in {1, 2} : kout[i] # NoKey => kout'[i] = kout[i]]_vars

\* keys were built for one dict of two items in its two insertion orders
C21_Witness ==
  /\ Len(kin.params[1]) = 2
  /\ kin.params[1] # kin.params[2]
  /\ Items(kin.params[1]) = Items(kin.params[2])
  /\ kout[1] # NoKey
  /\ kout[2] # NoKey

\* the part of a key that _k hashes: path + "|" + the dumped params
Derivation(k) == k[2]

\* C22: the fresh key and the stale key of a request differ and are built
\* from the same path and params; writing the fresh entry leaves the stale
\* entry as it was, and writing the stale entry leaves the fresh entry as it
\* was.
C22_FreshStaleDisjoint ==
  [][\A t \in Threads :
       /\ fresh_key(req[t]) # stale_key(req[t])
       /\ Derivation(fresh_key(req[t])) = Derivation(stale_key(req[t]))
       /\ (pc[t] = "set_fresh" /\ Moves(t)) => StaleOf(req[t])' = StaleOf(req[t])
       /\ (pc[t] = "set_stale" /\ Moves(t)) => FreshOf(req[t])' = FreshOf(req[t])]_vars

\* both entries of a request have been written by one call and differ
C22_Witness ==
  \E t \in Threads :
    /\ pc[t] = "count"
    /\ FreshOf(req[t]).present
    /\ StaleOf(req[t]).present
    /\ FreshOf(req[t]) # StaleOf(req[t])

\* the calendar day at time t
CalendarDay(t) == t \div DayLen
\* the day whose counter the count_call in progress in thread t works on: the
\* day on which it built its key
CountedDay(t) == IF pc[t] = "count_write" THEN cur[t].day ELSE CalendarDay(now)

\* C23: a count_call changes no counter but that of the day it was called on,
\* and budget_ok lets the call through exactly when the counter of the
\* current calendar day, 0 when that day has none yet, is below soft_cap.
C23_DayCountersIndependent ==
  [][\A t \in Threads :
       /\ (pc[t] \in {"count", "count_write"} /\ Moves(t))
            => \A d \in Days : d # CountedDay(t) => counter'[d] = counter[d]
       /\ (pc[t] = "budget" /\ Moves(t))
            => (pc'[t] = "fetch" <=> CountOf(CalendarDay(now)) < SoftCap)]_vars

\* on the second day a call has been counted while the first day's counter
\* still stands at the cap
C23_Witness ==
  /\ CalendarDay(now) = 1
  /\ counter[1].present /\ counter[1].n = 1
  /\ counter[0].present /\ counter[0].n = SoftCap

\* the steps that stay within calendar day d
Within(d) == CalendarDay(now) = d /\ CalendarDay(now') = d

\* C24 (as claimed): within a calendar day the stored counter of that day
\* never decreases, whatever the interleaving of count_call operations and
\* whichever the backend.
C24_CounterMonotonic ==
  [][\A d \in Days : Within(d) => CountOf(d)' >= CountOf(d)]_vars

\* C24 (what the code does): on Redis the counter of the day never decreases
\* within the day.
C24_MonotonicOnRedis ==
  [][\A d \in Days : (backend = "redis" /\ Within(d)) => CountOf(d)' >= CountOf(d)]_vars

\* on the in-process dict a count_call is about to write a count two or more
\* behind the stored one
C24_Witness ==
  \E t \in Threads :
    /\ backend = "mem"
    /\ pc[t] = "count_write"
    /\ cur[t].day = CalendarDay(now)
    /\ CountOf(cur[t].day) >= cur[t].n + 2

\* thread t's _get returns (or raises) in this step
GetEnds(t) == gpc[t] \in {"get", "del"} /\ gpc'[t] = "done"
\* seconds since the latest _setex of key k
SinceSet(k) == now - lastset[k].at

\* C25 (as claimed): a _get of a key that has been set returns the value of
\* the latest _setex while less than its ttl has elapsed, and None once more
\* than its ttl has elapsed.
C25_StoreExpiry ==
  [][\A t \in Threads :
       (GetEnds(t) /\ lastset[gkey[t]].set)
         => /\ SinceSet(gkey[t]) < lastset[gkey[t]].ttl
                 => gret'[t] = [kind |-> "returned", val |-> lastset[gkey[t]].val]
            /\ SinceSet(gkey[t]) > lastset[gkey[t]].ttl
                 => gret'[t] = [kind |-> "returned", val |-> "None"]]_vars

\* C25 (what the code does): the same on the Redis backend.
C25_StoreExpiryOnRedis ==
  [][\A t \in Threads :
       (backend = "redis" /\ GetEnds(t) /\ lastset[gkey[t]].set)
         => /\ SinceSet(gkey[t]) < lastset[gkey[t]].ttl
                 => gret'[t] = [kind |-> "returned", val |-> lastset[gkey[t]].val]
            /\ SinceSet(gkey[t]) > lastset[gkey[t]].ttl
                 => gret'[t] = [kind |-> "returned", val |-> "None"]]_vars

\* on the in-process dict a _get that found an expired entry is about to
\* delete the key, which has been set again in the meantime
C25_Witness ==
  \E t \in Threads :
    /\ backend = "mem"
    /\ gpc[t] = "del"
    /\ lastset[gkey[t]].set
    /\ lastset[gkey[t]].val # "None"
    /\ SinceSet(gkey[t]) < lastset[gkey[t]].ttl
    /\ store[gkey[t]].present

\* what a caller can see of a backend: what the last call returned or raised,
\* whether it invoked fetch_fn, and the day's count
Observed(b) ==
  [ret |-> twin[b].ret, invoked |-> twin[b].invoked,
   count |-> CountOn(b, twin[b].counter, CalendarDay(now), now)]

\* C26 (as claimed): after every sequence of cached_fetch calls the two
\* backends have shown the caller the same returned values, errors, fetch_fn
\* invocations and counter values.
C26_BackendsAgree == Observed("redis") = Observed("mem")

\* C26 (what the code does): the backends agree as long as no call is made at
\* the very instant one of its entries expires.
C26_BackendsAgreeOffExpiry == ~edge => Observed("redis") = Observed("mem")

\* both backends have answered a call from the fresh entry
C26_Witness ==
  /\ ~edge
  /\ twin["redis"].ret.kind = "fresh"
  /\ twin["mem"].ret.kind = "fresh"

EnablingValues == {"true", "True", "TRUE"}

T == Cardinality(Threads)

\* C28 (as claimed): on either backend the successful upstream calls of a
\* provider and day never exceed soft_cap + (T - 1).
C28_OverCountBounded == \A d \in Days : Successes(d) <= SoftCap + (T - 1)

\* C28 (what the code does): the bound holds on Redis.
C28_OverCountBoundedOnRedis ==
  backend = "redis" => \A d \in Days : Successes(d) <= SoftCap + (T - 1)

\* two threads have passed the budget check for different keys and neither
\* has counted yet
C28_Witness ==
  \E t1, t2 \in Threads :
    /\ t1 # t2
    /\ req[t1] # req[t2]
    /\ pc[t1] \in {"fetch", "fetching", "set_fresh", "set_stale", "count"}
    /\ pc[t2] \in {"fetch", "fetching", "set_fresh", "set_stale", "count"}
    /\ CountOf(CalendarDay(now)) = SoftCap - 1

\* fetch_fn returns v
Returned(v) == [kind |-> "returned", val |-> v]

\* the instants before the fresh entry written at time t runs out
WhileFresh(t) == t .. (t + Ttl - 1)

\* the call made at time t finds request q cached with value v: v comes back,
\* fetch_fn is not invoked and the counters stay as the earlier call left them
ServedFromCache(b, side, q, v, t) ==
  \A out \in Outcomes :
    LET again == FetchOn(b, side, t, q, out) IN
      /\ again.ret = [kind |-> "fresh", val |-> v]
      /\ ~again.invoked
      /\ again.counter = side.counter

\* C29 (as claimed): once cached_fetch has returned a value v it got from
\* fetch_fn, a later call for the same key made before the fresh TTL expires
\* returns v with no fetch_fn invocation and no counter increment, for every
\* value v, None and the empty containers included.
C29_WriteThrough ==
  \A b \in Backends : \A q \in Requests : \A v \in Values :
    LET first == FetchOn(b, twin[b], now, q, Returned(v)) IN
      first.ret = [kind |-> "fetched", val |-> v]
        => \A t \in WhileFresh(now) : ServedFromCache(b, first, q, v, t)

\* C29 (what the code does): the later call is served from the cache for
\* every fetched value other than None.
C29_WriteThroughNonNull ==
  \A b \in Backends : \A q \in Requests : \A v \in Values \ {"None"} :
    LET first == FetchOn(b, twin[b], now, q, Returned(v)) IN
      first.ret = [kind |-> "fetched", val |-> v]
        => \A t \in WhileFresh(now) : ServedFromCache(b, first, q, v, t)

\* on both backends a call has been answered with the empty dict that an
\* earlier call fetched and stored, fetch_fn left alone
C29_Witness ==
  \A b \in Backends :
    /\ twin[b].ret = [kind |-> "fresh", val |-> "dict()"]
    /\ ~twin[b].invoked
    /\ \E q \in Requests : GetOn(b, twin[b].store, fresh_key(q), now).data = "dict()"

\* what _get(k) returns on store st, now and at every later instant
Readable(b, st, k) == [t \in now..(MaxTime + StaleTtl) |-> GetOn(b, st, k, t).data]

\* the call just made invoked fetch_fn and fetch_fn raised
FetchFailed(b) ==
  /\ now' = now
  /\ twin'[b].invoked
  /\ twin'[b].ret.kind = "raised"
  /\ twin'[b].ret.val \in Errors

ServedWithoutFetch(b) ==
  /\ now' = now
  /\ ~twin'[b].invoked
  /\ \/ twin'[b].ret.kind \in {"fresh", "stale"}
     \/ twin'[b].ret = [kind |-> "raised", val |-> BudgetExhausted]

\* the entry has not run out at time t
Live(e, t) == e.present /\ (e.exp = NoExpiry \/ t < e.exp)

\* thread t takes a step of its call that comes before any fetch_fn
BeforeFetch(t) ==
  /\ pc[t] \in {"get_fresh", "del_fresh", "budget", "get_stale", "del_stale"}
  /\ Moves(t)

\* thread t's call ends with a fresh hit, a stale fallback or budget exhaustion
CacheServed(t) ==
  /\ pc[t] # "done"
  /\ pc'[t] = "done"
  /\ \/ ret'[t].kind \in {"fresh", "stale"}
     \/ ret'[t] = [kind |-> "raised", val |-> BudgetExhausted]

\* the steps before fetch_fn write no counter and store no entry
ReadsOnly(t) ==
  BeforeFetch(t)
    => /\ counter' = counter
       /\ \A k \in StoreKeys : store'[k] \in {store[k], Absent}

\* C31 (as claimed): a call of cached_fetch that returns a fresh hit or a
\* stale fallback, or fails with budget exhaustion, leaves the budget counters
\* and every unexpired store entry as they were.
C31_CacheServedFrame ==
  [][\A t \in Threads :
       /\ ReadsOnly(t)
       /\ CacheServed(t) => ~removed'[t]]_vars

\* C31 (what the code does): such a call never writes a counter or stores an
\* entry, and on Redis it removes nothing; on the in-process dict its lazy
\* delete can remove an entry another thread has just stored.
C31_CacheServedFrameOnRedis ==
  [][\A t \in Threads :
       /\ ReadsOnly(t)
       /\ (backend = "redis" /\ CacheServed(t)) => ~removed'[t]]_vars

\* C31, calls that do not overlap, on either backend: the counters and every
\* unexpired entry are as before, and every key reads as before.
C31_CacheServedFrameSequential ==
  [][\A b \in Backends :
       ServedWithoutFetch(b)
         => /\ twin'[b].counter = twin[b].counter
            /\ \A k \in StoreKeys :
                 /\ Live(twin[b].store[k], now) => twin'[b].store[k] = twin[b].store[k]
                 /\ Readable(b, twin'[b].store, k) = Readable(b, twin[b].store, k)]_vars

\* a call has been answered from the stale entry with the day's counter at
\* the cap and fetch_fn left alone
C31_Witness ==
  \E t \in Threads :
    /\ pc[t] = "done"
    /\ ret[t].kind = "stale"
    /\ upstream[t] = NoRet
    /\ ~removed[t]
    /\ CountOf(CalendarDay(now)) >= SoftCap
    /\ Unexpired(StaleOf(req[t]))

\* some thread has written the fresh entry of q and not yet its stale entry
MidWrite(q) == \E t \in Threads : pc[t] = "set_stale" /\ req[t] = q

\* the stale entry of q is there and holds what the fresh entry holds
StaleAgrees(q) ==
  /\ Unexpired(StaleOf(q))
  /\ StaleOf(q).val = FreshOf(q).val

\* C32 (as claimed): in every reachable state, for every request (all call
\* sites of the model have stale_ttl >= ttl), a fresh entry that is present
\* comes with a stale entry that is present and holds the same value.
C32_FreshImpliesStale ==
  \A q \in Requests : Unexpired(FreshOf(q)) => StaleAgrees(q)

\* C32 (as claimed, read for the states in which no call is between its two
\* _setex writes)
C32_FreshImpliesStaleAtRest ==
  \A q \in Requests : (Unexpired(FreshOf(q)) /\ ~MidWrite(q)) => StaleAgrees(q)

\* C32 (what the code does): on Redis, outside the window between a call's
\* two _setex writes, a fresh entry that is present comes with a stale entry
\* that is present and holds a value fetch_fn returned for the request.
C32_FreshImpliesSomeStale ==
  \A q \in Requests :
    (backend = "redis" /\ Unexpired(FreshOf(q)) /\ ~MidWrite(q))
      => /\ Unexpired(StaleOf(q))
         /\ Held(StaleOf(q)) \in fetched[q]

\* both entries of a request are present and hold the same fetched value,
\* every call having finished
C32_Witness ==
  \E q \in Requests :
    /\ Unexpired(FreshOf(q))
    /\ StaleAgrees(q)
    /\ Held(FreshOf(q)) \in fetched[q]
    /\ \A t \in Threads : pc[t] = "done"

\* thread t's stale_while_revalidate call returns a value in this step
SReturns(t) == spc[t] # "done" /\ spc'[t] = "done" /\ sret'[t].kind # "raised"

\* C33: every value stale_while_revalidate returns is either the value its own
\* synchronous fetch_fn has just returned, or the cached value it read, which
\* then carries a meta.cached_at no more than hard_ttl before the call's
\* `now`; a cached value without meta.cached_at is never served.
C33_HardWindow ==
  [][\A t \in Threads :
       SReturns(t)
         => \/ /\ spc[t] = "set"
               /\ sret'[t] = [kind |-> "fetched", val |-> sdata[t]]
            \/ /\ spc[t] = "get"
               /\ sret'[t] = [kind |-> "cached", val |-> CurOf(t)]
               /\ IsTagged(CurOf(t))
               /\ UnixTime(snow[t]) - CachedAt(CurOf(t)) <= HardTtl]_vars

\* a call has served a cached value aged exactly hard_ttl
C33_Witness ==
  \E t \in Threads :
    /\ spc[t] = "done"
    /\ sret[t].kind = "cached"
    /\ IsTagged(sret[t].val)
    /\ AgeOf(sret[t].val, snow[t]) = HardTtl

\* the meta.cached_at stale_while_revalidate reads from a stored entry
StoredAt(e) == CachedAt(JsonLoads(e.val))

\* the entry under key k is overwritten in this step
Overwritten(k) == tstore[k].present /\ tstore'[k].present /\ tstore'[k] # tstore[k]

\* the time at which the entry was written by cache_set(key, obj, hard_ttl)
WrittenAt(e) == e.exp - HardTtl

\* C34 (as claimed): for each key, the meta.cached_at of the stored entry
\* never decreases when the entry is overwritten, whatever the interleaving
\* of background revalidations and synchronous fetches.
C34_CachedAtMonotonic ==
  [][\A k \in TKeys : Overwritten(k) => StoredAt(tstore'[k]) >= StoredAt(tstore[k])]_vars

\* C34 (what the code does): an overwrite does not decrease meta.cached_at
\* when the new payload carries a meta.cached_at and its fetch_fn returned
\* no earlier than the overwritten entry was written.
C34_CachedAtMonotonicInOrder ==
  [][\A k \in TKeys :
       (/\ Overwritten(k)
        /\ IsTagged(JsonLoads(tstore'[k].val))
        /\ TagTime(JsonLoads(tstore'[k].val)) >= WrittenAt(tstore[k]))
         => StoredAt(tstore'[k]) >= StoredAt(tstore[k])]_vars

\* a background revalidation has replaced the entry by a later one
C34_Witness ==
  \E i \in BgIds :
    /\ bg[i].st = "done"
    /\ IsTagged(bg[i].data)
    /\ TagTime(bg[i].data) >= 1
    /\ tstore[bg[i].key].present
    /\ JsonLoads(tstore[bg[i].key].val) = bg[i].data
    /\ bg[i].at < tstore[bg[i].key].exp

\* the last call handed its service a value
SiteServed == xret.kind \in {"fresh", "stale", "fetched"}

\* C35 (as claimed): the value a service receives from cached_fetch is the
\* body of the upstream API its own fetch_fn calls; nfl_apisports and
\* mlb_apisports never receive each other's /players response.
C35_OwnUpstreamOnly == SiteServed => xret.val = Response(xret.site.upstream)

\* C35 (what the code does): the value a service receives was fetched by a
\* call site that passes the same prefix, path and params.
C35_SameKeyOnly ==
  SiteServed
    => \E s \in Sites :
         /\ SiteFresh(s) = SiteFresh(xret.site)
         /\ xret.val = Response(s.upstream)

\* mlb.search_player has been served its own cached response while the
\* 'apisports' /players entry holds a response too
C35_Witness ==
  /\ xret.site.service = "mlb.search_player"
  /\ xret.kind = "fresh"
  /\ xret.val = Response("baseball")
  /\ \E s \in Sites :
       /\ s.prefix = "apisports"
       /\ s.path = "/players"
       /\ GetOn(backend, xstore, SiteFresh(s), now).data # "None"

\* the most invocations of fn the wrapper may make
AtMost == IF rtries < 1 THEN 1 ELSE rtries

\* thread t's _retrying_call invokes fn in this step
Invokes(t) == attempts'[t] = attempts[t] + 1

\* thread t's _retrying_call ends in this step
RetryEnds(t) == pc[t] = "fetching" /\ pc'[t] # "fetching"

\* the wrapper: at most max(1, tries) invocations, each made inside the one
\* fetch_fn; it ends with the first invocation that succeeds, returning its
\* result, or after max(1, tries) failures, raising the last one's exception
RetryContract(t) ==
  /\ attempts'[t] <= AtMost
  /\ Invokes(t) => pc[t] = "fetching" /\ started' = started
  /\ (Invokes(t) /\ RetryEnds(t))
       => /\ upstream'[t].kind = "returned"
          /\ data'[t] = upstream'[t].val
          /\ rlast'[t] = rlast[t]
  /\ (Invokes(t) /\ ~RetryEnds(t))
       => /\ rlast'[t] \in Errors
          /\ upstream'[t] = upstream[t]
  /\ (RetryEnds(t) /\ ~Invokes(t))
       => /\ attempts[t] = AtMost
          /\ ret'[t] = [kind |-> "raised", val |-> rlast[t]]
          /\ rlast[t] \in Errors

\* thread t's cached_fetch returns freshly fetched data in this step
ReturnsFetched(t) == pc[t] # "done" /\ pc'[t] = "done" /\ ret'[t].kind = "fetched"

\* one counter is one higher than it read before the step, the others are as
\* they were
CountedOnce ==
  \E d \in Days :
    /\ counter'[d].n = CountOf(d) + 1
    /\ \A e \in Days \ {d} : counter'[e] = counter[e]

\* C36 (as claimed): _retrying_call keeps to its contract, and a cached_fetch
\* that returns fetched data has made one fetch_fn call and leaves the budget
\* counter exactly one higher, however many attempts were made.
C36_RetryCountsOnce ==
  [][\A t \in Threads :
       /\ RetryContract(t)
       /\ ReturnsFetched(t) => CountedOnce]_vars

\* C36 (what the code does): the wrapper keeps to its contract on both
\* backends; the counter is exactly one higher on Redis.
C36_RetryCountsOnceOnRedis ==
  [][\A t \in Threads :
       /\ RetryContract(t)
       /\ (backend = "redis" /\ ReturnsFetched(t)) => CountedOnce]_vars

\* a cached_fetch has returned what the second attempt fetched, after a
\* first attempt that raised
C36_Witness ==
  \E t \in Threads :
    /\ pc[t] = "done"
    /\ ret[t].kind = "fetched"
    /\ attempts[t] = 2
    /\ rlast[t] \in Errors
    /\ upstream[t] = [kind |-> "returned", val |-> ret[t].val]

\* the status is neither 429 nor an error status
Successful(r) == r.status # 429 /\ ~(r.status \in 400..599)

\* the call in progress ends in this step
CallEnds == hpc = "loop" /\ hpc' = "idle"

\* C37: one call of _throttled_get issues at most `tries` requests; what it
\* returns is the body of the first response that is neither a 429 nor an
\* error, and such a response with a JSON body is returned at once; it raises
\* when all `tries` responses are 429; _LAST_CALL_AT changes only in a step
\* that receives a successful response.
C37_ThrottledGet ==
  [][/\ hreq' <= htries'
     /\ (CallEnds /\ hret'.kind = "returned")
          => /\ hresp' # <<>>
             /\ Successful(hresp'[Len(hresp')])
             /\ \A j \in 1..(Len(hresp') - 1) : hresp'[j].status = 429
             /\ hret'.val = JsonLoads(hresp'[Len(hresp')].body)
     /\ (Len(hresp') = Len(hresp) + 1 /\ Successful(hresp'[Len(hresp')]))
          => /\ CallEnds
             /\ hresp'[Len(hresp')].body # "<html>" => hret'.kind = "returned"
     /\ (hpc = "loop" /\ Len(hresp) = htries /\ hpc' # "loop"
           /\ \A j \in 1..Len(hresp) : hresp[j].status = 429)
          => hret'.kind = "raised"
     /\ hlast' # hlast
          => /\ Len(hresp') = Len(hresp) + 1
             /\ Successful(hresp'[Len(hresp')])
             /\ hlast' = hmono']_vars

\* a call has returned the body of its third response after two 429s, and
\* has moved the timestamp
C37_Witness ==
  /\ hpc = "idle"
  /\ hret.kind = "returned"
  /\ Len(hresp) = 3
  /\ hresp[1].status = 429
  /\ hresp[2].status = 429
  /\ hlast = hmono
  /\ hlast > 0

\* no entry of _NAME_TO_ID is removed in this step
EntriesKept == DOMAIN memo \subseteq DOMAIN memo'

\* no entry of _NAME_TO_ID gets another id in this step
EntriesFixed == \A k \in DOMAIN memo \cap DOMAIN memo' : memo'[k] = memo[k]

\* thread t's call finds its key in _NAME_TO_ID
FindsKey(t) == npc[t] = "check" /\ nname[t] # "" /\ NameKey(t) \in DOMAIN memo

\* thread t's search ends in this step without a result: it raised or
\* answered with an empty list
SearchFails(t) == npc[t] = "search" /\ npc'[t] = "idle"

\* a call that finds its key returns the stored id at once, without having
\* called search_player; a failed or empty search stores nothing
MemoServes ==
  \A t \in Threads :
    /\ (FindsKey(t) /\ npc'[t] # npc[t])
         => /\ npc'[t] = "idle"
            /\ nret'[t] = [kind |-> "returned", val |-> memo[NameKey(t)]]
            /\ ~nsearched'[t]
    /\ SearchFails(t) => memo' = memo

\* C38 (as claimed): a resolved name is served from _NAME_TO_ID with the
\* same id and without a search ever after; a failed or empty search stores
\* nothing; entries are never removed or changed.
C38_MemoStable == [][MemoServes /\ EntriesKept /\ EntriesFixed]_vars

\* C38 (what the code does): a call that finds its key returns the stored
\* id without a search, a failed or empty search stores nothing, and entries
\* are never removed; an entry changes only when a thread that searched for
\* its key stores the id its own search found.
C38_MemoKept ==
  [][/\ MemoServes
     /\ EntriesKept
     /\ memo' # memo
          => \E t \in Threads :
               /\ npc[t] = "store"
               /\ nsearched[t]
               /\ NameKey(t) \in DOMAIN memo'
               /\ memo'[NameKey(t)] = nres[t][1].id
               /\ \A k \in DOMAIN memo' \ {NameKey(t)} :
                    k \in DOMAIN memo /\ memo'[k] = memo[k]]_vars

\* a call has been served, without a search, the id an earlier search
\* stored under another spelling of the name
C38_Witness ==
  \E t \in Threads :
    /\ npc[t] = "idle"
    /\ nname[t] = " pete alonso "
    /\ ~nsearched[t]
    /\ nret[t].kind = "returned"
    /\ nret[t].val # "None"
    /\ "pete alonso" \in DOMAIN memo
    /\ nret[t].val = memo["pete alonso"]
====
